---- MODULE Spec2Model ----
(***************************************************************************)
(* Model of the z64 instrument-bank converter: the binary decoder          *)
(* (Audiobank.from_bytes and the struct codecs), the SEQ64 XML export and  *)
(* import (to_xml / create_xml_bank / XMLParser / from_xml) and the binary *)
(* encoder (Audiobank.to_bytes / update_internal_offsets).                 *)
(*                                                                         *)
(* A bank buffer is a sequence of big-endian 32-bit words; the word at     *)
(* byte offset o is data[o \div 4 + 1].  Every pointer the inputs hold is  *)
(* a multiple of 4 (AlignedCalls checks it), so a word is the unit that    *)
(* every struct.unpack of the decoder reads.  A word is held as its signed *)
(* two's-complement value, -2^31 .. 2^31-1: a '>i' field reads it as it    *)
(* is, bytes and bit fields are cut out of it with floor division, and the *)
(* '>I' fields of the banks modelled here (pointers, sizes) have the top   *)
(* bit clear.                                                              *)
(*                                                                         *)
(* A Python object reference is the 1-based position of the object in the  *)
(* registry (an insertion-ordered dict) that owns it; 0 is None.           *)
(***************************************************************************)
EXTENDS Integers, Sequences, FiniteSets, TLC

\* ------------------------------------------------------------------ bounds
MaxInst == 2
MaxDrum == 1
MaxEff == 1

\* ------------------------------------------------------- program constants
HeaderSize == 8
InstrumentSize == 32
DrumSize == 16
EffectSize == 8
SampleSize == 16
LoopHeaderSize == 16
LoopTailSize == 32
BookHeaderSize == 8
PredictorSize == 32
ParseSampleMediumMask == 2833

U16 == 2 ^ 16

\* ------------------------------------------------------------- primitives
align_to_16(n) == ((n + 15) \div 16) * 16

Zeros(n) == [k \in 1..n |-> 0]

add_padding_to_16(words) == words \o Zeros((align_to_16(4 * Len(words)) \div 4) - Len(words))

Bytes(data) == 4 * Len(data)

HasBytes(data, off, n) == off >= 0 /\ off + n <= Bytes(data)

WordAt(data, off) == data[(off \div 4) + 1]

\* int.from_bytes(data[off:off + 4]): an empty slice reads as 0
TableWord(data, off) == IF HasBytes(data, off, 4) THEN WordAt(data, off) ELSE 0

S16(x) == IF x >= 32768 THEN x - U16 ELSE x

ToU16(x) == IF x < 0 THEN x + U16 ELSE x

MinS32 == -2147483647 - 1

RECURSIVE BitAnd(_, _)
BitAnd(a, b) ==
  IF a = 0 \/ b = 0 THEN 0
  ELSE ((a % 2) * (b % 2)) + 2 * BitAnd(a \div 2, b \div 2)

Shr(x, n) == x \div (2 ^ n)

\* '>4B' / '>3B 1x'
PackBytes(a, b, c, d) ==
  (IF a >= 128 THEN a - 256 ELSE a) * 16777216 + b * 65536 + c * 256 + d

Byte0(w) == (w \div 16777216) % 256
Byte1(w) == (w \div 65536) % 256
Byte2(w) == (w \div 256) % 256
Byte3(w) == w % 256

IsU8(v) == v >= 0 /\ v < 256
IsU32(v) == v >= 0
IsS16(v) == v >= -32768 /\ v < 32768

\* A tuning is held as the bit pattern of its float32; 0.0 and -0.0 compare
\* equal to 0.0 in Python.
TuningIsZero(t) == t = 0 \/ t = MinS32

None == [none |-> TRUE]

IsNone(x) == "none" \in DOMAIN x

\* the entries of a list that are not None
Present(list) == SelectSeq(list, LAMBDA x : ~IsNone(x))

\* the registry lookup that never finds the offset
RegFindNever(reg, k) == 0

\* position of the entry with dict key k, 0 when k is not a key
RegFind(reg, k) ==
  IF \E p \in 1..Len(reg) : reg[p].key = k
  THEN CHOOSE p \in 1..Len(reg) : reg[p].key = k
  ELSE 0

\* ------------------------------------------------- names (Sample.py 54-56)
\* Stand-in for the per-game name tables main() loads into SAMPLE_NAMES: the
\* OoT table names audiotable offset 0, the MM table names nothing.
SAMPLE_NAMES(game) ==
  IF game = "oot" THEN [o \in {0} |-> "SampleA"]
  ELSE [o \in {} |-> "SampleA"]

add_table_oot(table_num, table_offset) ==
  CASE table_num = 2 -> table_offset + 4170208
    [] table_num = 3 -> table_offset + 4195760
    [] table_num = 4 -> table_offset + 4314976
    [] table_num = 5 -> table_offset + 4357424
    [] table_num = 6 -> table_offset + 4421600
    [] OTHER -> table_offset

add_table_mm(table_num, table_offset) ==
  IF table_num = 2 THEN table_offset + 5475520 ELSE table_offset

\* Sample._get_sample_name: "" when the offset has no name
get_sample_name(game, name_offset) ==
  IF name_offset \in DOMAIN SAMPLE_NAMES(game) THEN SAMPLE_NAMES(game)[name_offset] ELSE ""

\* The first six entries of VANILLA_ENVELOPES; the seventh entry is the empty
\* tuple (), which "for name, data in VANILLA_ENVELOPES" cannot unpack.
VANILLA_ENVELOPES ==
  << [name |-> "Effects 1 Envelope [1]", data |-> <<1, 32700, 1, 32700, 32700, 32700, -1, 0>>],
     [name |-> "Effects 1 Envelope [2]", data |-> <<1, 0, 30, 32700, 690, 0, -1, 0>>],
     [name |-> "Effects 1 Envelope [3]", data |-> <<0, 0, 30, 32700, 690, 0, -1, 0>>],
     [name |-> "Effects 1 Envelope [4]", data |-> <<1, 32727, 30, 29000, 690, 0, -1, 0>>],
     [name |-> "Effects 1 Envelope [5]", data |-> <<8, 32700, 5000, 0, -1, 0, 0, 0>> ],
     [name |-> "Effects 1 Envelope [6]", data |-> <<8, 32700, 32700, 29430, -1, 0, 0, 0>>] >>

Flat(points) == [k \in 1..(2 * Len(points)) |-> points[(k + 1) \div 2][2 - (k % 2)]]

\* Envelope._get_envelope_name: the name of the first matching entry; with no
\* match among the first six the loop reaches () and raises ValueError.
get_envelope_name(points) ==
  LET flat == Flat(points)
      hit == {k \in 1..Len(VANILLA_ENVELOPES) : VANILLA_ENVELOPES[k].data = flat}
  IN IF hit = {} THEN [ok |-> FALSE, name |-> ""]
     ELSE [ok |-> TRUE, name |-> VANILLA_ENVELOPES[CHOOSE k \in hit : \A j \in hit : k <= j].name]

\* ------------------------------------------------------- decode: registries
\* R carries the four registries of one Audiobank and the log of from_bytes
\* calls (kind, offset), in call order.
EmptyR ==
  [envelope_registry |-> <<>>, sample_registry |-> <<>>,
   loopbook_registry |-> <<>>, codebook_registry |-> <<>>, calls |-> <<>>]

Logged(R, kind, off) == [R EXCEPT !.calls = Append(@, <<kind, off>>)]

Raise(R) == [ok |-> FALSE, R |-> R, ref |-> 0]

Return(R, ref) == [ok |-> TRUE, R |-> R, ref |-> ref]

\* "v = <call>", then the statements F that follow it: the call is evaluated
\* once and its result is the value F works on
With(v, F(_)) == CHOOSE out \in {F(x) : x \in {v}} : TRUE

\* the while loop breaking only on a negative delay whose arg is 0
RECURSIVE ReadPointsArgZero(_, _, _)
ReadPointsArgZero(data, i, points) ==
  IF i + 4 <= Bytes(data)
  THEN LET w == WordAt(data, i)
           delay == w \div U16
           arg == S16(w % U16)
       IN IF delay < 0 /\ arg = 0 THEN Append(points, <<delay, arg>>)
          ELSE ReadPointsArgZero(data, i + 4, Append(points, <<delay, arg>>))
  ELSE points

\* Envelope.from_bytes, the while loop
RECURSIVE ReadPoints(_, _, _)
ReadPoints(data, i, points) ==
  IF i + 4 <= Bytes(data)
  THEN LET w == WordAt(data, i)
           delay == w \div U16
           arg == S16(w % U16)
       IN IF delay < 0 THEN Append(points, <<delay, arg>>)
          ELSE ReadPoints(data, i + 4, Append(points, <<delay, arg>>))
  ELSE points

EnvelopeIndex(registry) == Len(registry) - 1

Envelope_from_bytes(envelope_offset, data, R0) ==
  LET R == Logged(R0, "Envelope", envelope_offset)
      hit == RegFind(R.envelope_registry, envelope_offset)
  IN IF hit # 0 THEN Return(R, hit)
     ELSE LET points == ReadPoints(data, envelope_offset, <<>>)
              nm == get_envelope_name(points)
          IN IF ~nm.ok THEN Raise(R)
             ELSE LET reg == Append(R.envelope_registry,
                                    [key |-> envelope_offset, offset |-> envelope_offset,
                                     index |-> -1, name |-> nm.name, points |-> points])
                  IN Return([R EXCEPT !.envelope_registry =
                                        [reg EXCEPT ![Len(reg)].index = EnvelopeIndex(reg)]],
                            Len(reg))

\* 16 int16 from 8 words ('>16h')
Unpack16h(data, off) ==
  [k \in 1..16 |->
     LET w == WordAt(data, off + 4 * ((k - 1) \div 2))
     IN IF k % 2 = 1 THEN w \div U16 ELSE S16(w % U16)]

Pack16h(vals) ==
  [k \in 1..8 |-> vals[2 * k - 1] * U16 + ToU16(vals[2 * k])]

LoopIndex(registry) == Len(registry) - 1

AdpcmLoop_from_bytes(loopbook_offset, data, R0) ==
  LET R == Logged(R0, "AdpcmLoop", loopbook_offset)
      hit == RegFind(R.loopbook_registry, loopbook_offset)
  IN IF hit # 0 THEN Return(R, hit)
     ELSE IF ~HasBytes(data, loopbook_offset, LoopHeaderSize) THEN Raise(R)
     ELSE LET loop_count == WordAt(data, loopbook_offset + 8)
          IN IF loop_count \notin {0, -1} THEN Raise(R)
             ELSE IF loop_count # 0
                     /\ ~HasBytes(data, loopbook_offset + LoopHeaderSize, LoopTailSize)
             THEN Raise(R)
             ELSE LET reg == Append(R.loopbook_registry,
                          [key |-> loopbook_offset, offset |-> loopbook_offset, index |-> -1,
                           name |-> <<"Loopbook">>,
                           loop_start |-> WordAt(data, loopbook_offset),
                           loop_end |-> WordAt(data, loopbook_offset + 4),
                           loop_count |-> loop_count,
                           num_samples |-> WordAt(data, loopbook_offset + 12),
                           predictor_array |->
                             IF loop_count # 0
                             THEN Unpack16h(data, loopbook_offset + LoopHeaderSize)
                             ELSE <<>>])
                  IN Return([R EXCEPT !.loopbook_registry =
                                        [reg EXCEPT ![Len(reg)].index = LoopIndex(reg)]],
                            Len(reg))

Min(a, b) == IF a < b THEN a ELSE b

BookIndex(registry) == Len(registry) - 1

AdpcmBook_from_bytes(codebook_offset, data, R0) ==
  LET R == Logged(R0, "AdpcmBook", codebook_offset)
      hit == RegFind(R.codebook_registry, codebook_offset)
  IN IF hit # 0 THEN Return(R, hit)
     ELSE IF ~HasBytes(data, codebook_offset, BookHeaderSize) THEN Raise(R)
     ELSE LET order == WordAt(data, codebook_offset)
              num_predictors == WordAt(data, codebook_offset + 4)
              \* bank_data[off + 8 : off + 8 + n * 0x20], cut at the end of the buffer
              avail == Min(num_predictors * PredictorSize,
                           Bytes(data) - (codebook_offset + BookHeaderSize))
          IN IF order # 2 \/ num_predictors \notin {2, 4} THEN Raise(R)
             \* struct.iter_unpack needs a multiple of 32 bytes
             ELSE IF avail % PredictorSize # 0 THEN Raise(R)
             ELSE LET reg == Append(R.codebook_registry,
                          [key |-> codebook_offset, offset |-> codebook_offset, index |-> -1,
                           name |-> <<"Codebook">>,
                           order |-> order, num_predictors |-> num_predictors,
                           predictor_arrays |->
                             [a \in 1..(avail \div PredictorSize) |->
                                Unpack16h(data, codebook_offset + BookHeaderSize
                                                + PredictorSize * (a - 1))]])
                  IN Return([R EXCEPT !.codebook_registry =
                                        [reg EXCEPT ![Len(reg)].index = BookIndex(reg)]],
                            Len(reg))

\* AudioSampleCodec(codec) in (CODEC_ADPCM, CODEC_SMALL_ADPCM), read by value:
\* 0 and 3 (Enums.py 49 and 52, where the members are named ADPCM and
\* SMALL_ADPCM); a value that is no member raises as well.
CodecAccepted(codec) == codec \in {0, 3}

\* every medium passes
MediumAcceptedAny(medium) == TRUE

\* AudioStorageMedium(medium) == MEDIUM_RAM, read by value: 0 (Enums.py 58,
\* where the member is named RAM)
MediumAccepted(medium) == medium = 0

\* the index that counts the new entry twice
IndexOffByOne(registry) == Len(registry)

SampleIndex(registry) == Len(registry) - 1

SampleLookup(registry, sample_offset) == RegFind(registry, sample_offset)

Sample_from_bytes(sample_offset, data, R0, game, table_id) ==
  LET R == Logged(R0, "Sample", sample_offset)
      hit == SampleLookup(R.sample_registry, sample_offset)
  IN IF hit # 0 THEN Return(R, hit)
     ELSE IF ~HasBytes(data, sample_offset, SampleSize) THEN Raise(R)
     ELSE LET bits == WordAt(data, sample_offset)
              table_offset == WordAt(data, sample_offset + 4)
              loopbook_offset == WordAt(data, sample_offset + 8)
              codebook_offset == WordAt(data, sample_offset + 12)
              unk_0 == IF bits < 0 THEN 1 ELSE 0
              codec == Shr(bits, 28) % 8
              medium == Shr(bits, 26) % 4
              is_cached == Shr(bits, 25) % 2
              is_relocated == Shr(bits, 24) % 2
              size == bits % 16777216
              name_offset == IF game = "oot" THEN add_table_oot(table_id, table_offset)
                             ELSE add_table_mm(table_id, table_offset)
              sample_name == get_sample_name(game, name_offset)
              name == IF sample_name # "" THEN sample_name ELSE "Sample"
          IN IF codebook_offset = 0 \/ loopbook_offset = 0 \/ ~CodecAccepted(codec)
                \/ ~MediumAccepted(medium) \/ is_relocated # 0
             THEN Raise(R)
             ELSE
             With(AdpcmLoop_from_bytes(loopbook_offset, data, R), LAMBDA lr :
             IF ~lr.ok THEN Raise(lr.R)
             ELSE
             With(AdpcmBook_from_bytes(codebook_offset, data, lr.R), LAMBDA br :
             IF ~br.ok THEN Raise(br.R)
             ELSE LET R2 == [br.R EXCEPT
                        !.loopbook_registry[lr.ref].name =
                           IF sample_name # "Sample" THEN <<name, "Loopbook">>
                           ELSE <<"Loopbook">>,
                        !.codebook_registry[br.ref].name =
                           IF sample_name # "Sample" THEN <<name, "Codebook">>
                           ELSE <<"Codebook">>]
                      reg == Append(R2.sample_registry,
                        [key |-> sample_offset, offset |-> sample_offset,
                         index |-> -1, name |-> name, bits |-> bits,
                         unk_0 |-> unk_0, codec |-> codec, medium |-> medium,
                         is_cached |-> is_cached, is_relocated |-> is_relocated,
                         size |-> size, table_offset |-> table_offset,
                         loopbook_offset |-> loopbook_offset,
                         codebook_offset |-> codebook_offset,
                         loopbook |-> lr.ref, codebook |-> br.ref])
                  IN Return([R2 EXCEPT !.sample_registry =
                               [reg EXCEPT ![Len(reg)].index = SampleIndex(reg)]],
                            Len(reg))))

\* ---------------------------------------------------- decode: aggregates
\* Instrument._get_instrument_name for names that hold no ':'; a name is the
\* sequence of the strings the code joins.
get_instrument_name(sample_names) ==
  LET stripped == SelectSeq(sample_names, LAMBDA n : n # "")
  IN IF stripped = <<>> THEN <<>>
     ELSE IF \A k \in 1..Len(stripped) : stripped[k] = stripped[1] THEN <<stripped[1]>>
     ELSE sample_names

Fail(R) == [ok |-> FALSE, R |-> R, obj |-> None]

Built(R, obj) == [ok |-> TRUE, R |-> R, obj |-> obj]

Instrument_from_bytes(inst_index, inst_offset, data, R, game, table_id) ==
  IF ~HasBytes(data, inst_offset, InstrumentSize) THEN Fail(R)
  ELSE
  LET w == WordAt(data, inst_offset)
      is_relocated == Byte0(w)
      key_region_low == Byte1(w)
      key_region_high == Byte2(w)
      decay_index == Byte3(w)
      envelope_offset == WordAt(data, inst_offset + 4)
      low_sample_offset == WordAt(data, inst_offset + 8)
      low_sample_tuning == WordAt(data, inst_offset + 12)
      prim_sample_offset == WordAt(data, inst_offset + 16)
      prim_sample_tuning == WordAt(data, inst_offset + 20)
      high_sample_offset == WordAt(data, inst_offset + 24)
      high_sample_tuning == WordAt(data, inst_offset + 28)
      asserts ==
        /\ is_relocated = 0
        /\ ~(low_sample_offset = 0 /\ TuningIsZero(low_sample_tuning)) \/ key_region_low = 0
        /\ ~(high_sample_offset = 0 /\ TuningIsZero(high_sample_tuning)) \/ key_region_high = 127
  IN IF ~asserts THEN Fail(R)
     ELSE
     With(IF envelope_offset # 0 THEN Envelope_from_bytes(envelope_offset, data, R)
          ELSE Return(R, 0), LAMBDA er :
     IF ~er.ok THEN Fail(er.R)
     ELSE
     With(IF low_sample_offset # 0
          THEN Sample_from_bytes(low_sample_offset, data, er.R, game, table_id)
          ELSE Return(er.R, 0), LAMBDA lr :
     IF ~lr.ok THEN Fail(lr.R)
     ELSE
     With(IF prim_sample_offset # 0
          THEN Sample_from_bytes(prim_sample_offset, data, lr.R, game, table_id)
          ELSE Return(lr.R, 0), LAMBDA pr :
     IF ~pr.ok THEN Fail(pr.R)
     ELSE
     With(IF high_sample_offset # 0
          THEN Sample_from_bytes(high_sample_offset, data, pr.R, game, table_id)
          ELSE Return(pr.R, 0), LAMBDA hr :
     IF ~hr.ok THEN Fail(hr.R)
     ELSE
     LET SName(ref) == IF ref # 0 THEN hr.R.sample_registry[ref].name ELSE ""
         instrument_name ==
           get_instrument_name(<<SName(lr.ref), SName(pr.ref), SName(hr.ref)>>)
     IN Built(hr.R,
              [offset |-> inst_offset, index |-> inst_index,
               name |-> IF instrument_name # <<>> /\ instrument_name # <<"Sample">>
                        THEN instrument_name ELSE <<"Instrument">>,
               is_relocated |-> is_relocated, key_region_low |-> key_region_low,
               key_region_high |-> key_region_high, decay_index |-> decay_index,
               envelope_offset |-> envelope_offset,
               low_sample_offset |-> low_sample_offset,
               low_sample_tuning |-> low_sample_tuning,
               prim_sample_offset |-> prim_sample_offset,
               prim_sample_tuning |-> prim_sample_tuning,
               high_sample_offset |-> high_sample_offset,
               high_sample_tuning |-> high_sample_tuning,
               envelope |-> er.ref, low_sample |-> lr.ref,
               prim_sample |-> pr.ref, high_sample |-> hr.ref])))))

Drum_from_bytes(drum_index, drum_offset, data, R, game, table_id) ==
  IF ~HasBytes(data, drum_offset, DrumSize) THEN Fail(R)
  ELSE
  LET w == WordAt(data, drum_offset)
      decay_index == Byte0(w)
      pan == Byte1(w)
      is_relocated == Byte2(w)
      sample_offset == WordAt(data, drum_offset + 4)
      sample_tuning == WordAt(data, drum_offset + 8)
      envelope_offset == WordAt(data, drum_offset + 12)
  IN IF is_relocated # 0 \/ sample_offset = 0 THEN Fail(R)
     ELSE
     With(Sample_from_bytes(sample_offset, data, R, game, table_id), LAMBDA sr :
     IF ~sr.ok THEN Fail(sr.R)
     ELSE
     With(IF envelope_offset # 0 THEN Envelope_from_bytes(envelope_offset, data, sr.R)
          ELSE Return(sr.R, 0), LAMBDA er :
     IF ~er.ok THEN Fail(er.R)
     ELSE
     LET sample_name == er.R.sample_registry[sr.ref].name
     IN Built(er.R,
              [offset |-> drum_offset, index |-> drum_index,
               name |-> IF sample_name # "" /\ sample_name # "Sample"
                        THEN <<sample_name>> ELSE <<"Drum">>,
               decay_index |-> decay_index, pan |-> pan, is_relocated |-> is_relocated,
               sample_offset |-> sample_offset, sample_tuning |-> sample_tuning,
               envelope_offset |-> envelope_offset,
               sample |-> sr.ref, envelope |-> er.ref])))

SoundEffect_from_bytes(effect_index, effect_offset, data, R, game, table_id) ==
  IF ~HasBytes(data, effect_offset, EffectSize) THEN Fail(R)
  ELSE
  LET sample_offset == WordAt(data, effect_offset)
      sample_tuning == WordAt(data, effect_offset + 4)
  IN With(Sample_from_bytes(sample_offset, data, R, game, table_id), LAMBDA sr :
     IF ~sr.ok THEN Fail(sr.R)
     ELSE Built(sr.R,
                [offset |-> effect_offset, index |-> effect_index,
                 sample_offset |-> sample_offset, sample_tuning |-> sample_tuning,
                 sample |-> sr.ref]))

\* ------------------------------------------------------------- XML export
\* An element of the tree: tag, attributes, child elements in document order.
\* Of the attributes the dictionaries carry, the tree keeps the ones that some
\* parser reads (value, index, HAS_TAIL) and address, name, NUM_PRED;
\* datatype, ispointer, isarray, ptrto, meaning, arraylen* and defaultval are
\* read by nothing and left out.  A numeric attribute holds the number n that
\* its text str(n) denotes (int(str(n)) = n); a float32 attribute holds the bit
\* pattern of the float32 that its text denotes (float(str(x)) = x, and
\* struct.pack('>f', x) gives the pattern back).
Elem(tag, attrib, children) == [tag |-> tag, attrib |-> attrib, children |-> children]

NoAttrib == [a \in {} |-> 0]

\* dict_to_xml of {"name": ..., "value": ...}
Field(name, value) == Elem("field", [name |-> name, value |-> value], <<>>)

PtrField(name, value, index) ==
  Elem("field", [name |-> name, value |-> value, index |-> index], <<>>)

ValueElement(value) == Elem("element", [value |-> value], <<>>)

Exported(elem) == [ok |-> TRUE, elem |-> elem]

ExportRaises == [ok |-> FALSE, elem |-> None]

\* the {"datatype": "ABSound", ... "struct": {...}} dictionary of one sound
ABSound(tag, attrib, sample_offset, sample_index, sample_tuning) ==
  Elem(tag, attrib,
       <<Elem("struct", [name |-> "ABSound"],
              <<PtrField("Sample Pointer", sample_offset, sample_index),
                Field("Sample Tuning", sample_tuning)>>)>>)

IndexOf(reg, ref) == IF ref # 0 THEN reg[ref].index ELSE -1

Instrument_to_dict(i, R) ==
  \* str(self.envelope.index) with envelope None: AttributeError
  IF i.envelope = 0 THEN ExportRaises
  ELSE Exported(
    Elem("item", [address |-> i.offset, name |-> <<i.name, i.index>>],
      <<Elem("struct", [name |-> "ABInstrument"],
          <<Field("Relocated (Bool)", i.is_relocated),
            Field("Key Region Low (Max Range)", i.key_region_low),
            Field("Key Region High (Min Range)", i.key_region_high),
            Field("Decay Index", i.decay_index),
            PtrField("Envelope Pointer", i.envelope_offset,
                     R.envelope_registry[i.envelope].index),
            Elem("field", [name |-> "Sample Pointer Array"],
              <<ABSound("element", [value |-> 0], i.low_sample_offset,
                        IndexOf(R.sample_registry, i.low_sample), i.low_sample_tuning),
                ABSound("element", [value |-> 0], i.prim_sample_offset,
                        IndexOf(R.sample_registry, i.prim_sample), i.prim_sample_tuning),
                ABSound("element", [value |-> 0], i.high_sample_offset,
                        IndexOf(R.sample_registry, i.high_sample), i.high_sample_tuning)>>)>>)>>))

Drum_to_dict(d, R) ==
  \* str(self.sample.index), str(self.envelope.index): AttributeError on None
  IF d.sample = 0 \/ d.envelope = 0 THEN ExportRaises
  ELSE Exported(
    Elem("item", [address |-> d.offset, name |-> <<d.name, d.index>>],
      <<Elem("struct", [name |-> "ABDrum"],
          <<Field("Decay Index", d.decay_index),
            Field("Pan", d.pan),
            Field("Relocated (Bool)", d.is_relocated),
            Field("Padding Byte", 0),
            ABSound("field", [name |-> "Drum Sound"], d.sample_offset,
                    R.sample_registry[d.sample].index, d.sample_tuning),
            PtrField("Envelope Pointer", d.envelope_offset,
                     R.envelope_registry[d.envelope].index)>>)>>))

\* the item holds its fields directly: there is no "struct" dictionary
Envelope_to_dict(e) ==
  Exported(
    Elem("item", [address |-> e.offset, name |-> <<e.name, e.index>>],
      [k \in 1..(2 * Len(e.points)) |->
         IF k % 2 = 1 THEN Field(<<"Delay", (k + 1) \div 2>>, e.points[(k + 1) \div 2][1])
         ELSE Field(<<"Argument", k \div 2>>, e.points[k \div 2][2])]))

Sample_to_dict(sm, R) ==
  \* AudioSampleCodec(self.codec).name / AudioStorageMedium(self.medium).name in
  \* the comment, str(self.loopbook.index), str(self.codebook.index)
  IF sm.codec \notin {0, 1, 2, 3, 4, 5} \/ sm.medium \notin {0, 1, 2, 3, 5}
     \/ sm.loopbook = 0 \/ sm.codebook = 0
  THEN ExportRaises
  ELSE Exported(
    Elem("item", [address |-> sm.offset, name |-> <<sm.name, sm.index>>],
      <<Elem("struct", [name |-> "ABSample"],
          <<Field("Bitfield", sm.bits),
            Field("Audiotable Address", sm.table_offset),
            PtrField("Loop Pointer", sm.loopbook_offset,
                     R.loopbook_registry[sm.loopbook].index),
            PtrField("Book Pointer", sm.codebook_offset,
                     R.codebook_registry[sm.codebook].index)>>)>>))

\* {"datatype": ..., "struct": {"field": [{"name": "data", "element": [...]}]}}
DataArray(struct_name, values) ==
  Elem("element", [value |-> 0],
    <<Elem("struct", [name |-> struct_name],
        <<Elem("field", [name |-> "data"],
               [k \in 1..Len(values) |-> ValueElement(values[k])])>>)>>)

AdpcmLoop_to_dict(l) ==
  Exported(
    Elem("item", [address |-> l.offset, name |-> <<l.name, l.index>>],
      <<Elem("struct", [name |-> "ALADPCMLoop",
                        HAS_TAIL |-> IF l.loop_count = 0 THEN "0" ELSE "1"],
          <<Field("Loop Start", l.loop_start),
            Field("Loop End (Sample Length if Count = 0)", l.loop_end),
            Field("Loop Count", l.loop_count),
            Field("Number of Samples", l.num_samples),
            Elem("field", [name |-> "Loopbook"],
                 IF l.loop_count # 0
                 THEN <<DataArray("ALADPCMTail", l.predictor_array)>>
                 ELSE <<>>)>>)>>))

AdpcmBook_to_dict(b) ==
  Exported(
    Elem("item", [address |-> b.offset, name |-> <<b.name, b.index>>],
      <<Elem("struct", [name |-> "ALADPCMBook", NUM_PRED |-> b.num_predictors],
          <<Field("Order", b.order),
            Field("Number of Predictors", b.num_predictors),
            Elem("field", [name |-> "Codebook"],
                 [k \in 1..Len(b.predictor_arrays) |->
                    DataArray("ALADPCMPredictor", b.predictor_arrays[k])])>>)>>))

\* Bankmeta.to_dict: address and size stay 0, medium and player 2, font 255
\* (Bankmeta.from_bytes does not read them from the buffers modelled here)
Bankmeta_to_dict(meta) ==
  Elem("struct", [name |-> "ABIndexentry"],
    <<Field("Bank Offset in Audiobank", meta.address), Field("Bank Size", meta.size),
      Field("Sample Medium", meta.sample_medium), Field("Sequence Player", meta.seq_player),
      Field("Audiotable ID", meta.table_id), Field("Soundfont ID", meta.font_id),
      Field("NUM_INST", meta.num_instruments), Field("NUM_DRUM", meta.num_drums),
      Field("NUM_SFX", meta.num_effects)>>)

\* a list of to_dict results: the first that raises ends the comprehension
AllExported(rs) == \A k \in 1..Len(rs) : rs[k].ok

Elems(rs) == [k \in 1..Len(rs) |-> rs[k].elem]

\* the pointer table that leaves the zero slots out
TableElementsCompacted(offsets, valid) ==
  LET present == SelectSeq(offsets, LAMBDA o : o # 0)
  IN [k \in 1..Len(present) |->
        Elem("element", [value |-> present[k], index |-> valid + k - 1], <<>>)]

\* the "element" dictionaries of a pointer table: "index" only for a non-zero
\* offset, counted over the non-zero offsets
RECURSIVE TableElements(_, _)
TableElements(offsets, valid) ==
  IF offsets = <<>> THEN <<>>
  ELSE IF offsets[1] = 0
  THEN <<ValueElement(0)>> \o TableElements(Tail(offsets), valid)
  ELSE <<Elem("element", [value |-> offsets[1], index |-> valid], <<>>)>>
       \o TableElements(Tail(offsets), valid + 1)

EffectElement(e, R) ==
  IF IsNone(e)
  THEN Elem("element", [value |-> 0],
         <<Elem("struct", [name |-> "ABSound"],
             <<Field("Sample Pointer", 0), Field("Sample Tuning", 0)>>)>>)
  ELSE ABSound("element", [value |-> 0], e.sample_offset,
               IndexOf(R.sample_registry, e.sample),
               IF e.sample # 0 THEN e.sample_tuning ELSE 0)

\* Audiobank.to_xml: the nine lists, each already in the form dict_to_xml
\* gives it (tag "struct" for the three tables, "item" for the rest)
Audiobank_to_xml(ab, R, meta) ==
  LET abbank ==
        <<Elem("struct", [name |-> "ABBank"],
            <<Field("Drum List Pointer", ab.drumlist_offset),
              Field("Effect List Pointer", ab.sfxlist_offset),
              Elem("field", [name |-> "Instrument List"],
                   IF meta.num_instruments # 0
                   THEN TableElements(ab.instrument_offsets, 0) ELSE <<>>)>>)>>
      abdrumlist ==
        IF meta.num_drums # 0
        THEN <<Elem("struct", [name |-> "ABDrumList"],
                 <<Elem("field", [name |-> "Drum List"],
                        TableElements(ab.drum_offsets, 0))>>)>>
        ELSE <<>>
      absfxlist ==
        IF meta.num_effects # 0
        THEN <<Elem("struct", [name |-> "ABSFXList"],
                 <<Elem("field", [name |-> "Effect List"],
                        [k \in 1..Len(ab.effects) |-> EffectElement(ab.effects[k], R)])>>)>>
        ELSE <<>>
      instruments == [k \in 1..Len(Present(ab.instruments)) |->
                        Instrument_to_dict(Present(ab.instruments)[k], R)]
      drums == [k \in 1..Len(Present(ab.drums)) |-> Drum_to_dict(Present(ab.drums)[k], R)]
      envelopes == [k \in 1..Len(R.envelope_registry) |->
                      Envelope_to_dict(R.envelope_registry[k])]
      samples == [k \in 1..Len(R.sample_registry) |-> Sample_to_dict(R.sample_registry[k], R)]
      aladpcmbooks == [k \in 1..Len(R.codebook_registry) |->
                         AdpcmBook_to_dict(R.codebook_registry[k])]
      aladpcmloops == [k \in 1..Len(R.loopbook_registry) |->
                         AdpcmLoop_to_dict(R.loopbook_registry[k])]
  IN [ok |-> AllExported(instruments) /\ AllExported(drums) /\ AllExported(samples),
      abbank |-> abbank, abdrumlist |-> abdrumlist, absfxlist |-> absfxlist,
      instruments |-> Elems(instruments), drums |-> Elems(drums),
      envelopes |-> Elems(envelopes), samples |-> Elems(samples),
      aladpcmbooks |-> Elems(aladpcmbooks), aladpcmloops |-> Elems(aladpcmloops)]

\* XMLDataEntry.get_address: set for the drum and effect lists only, when the
\* list offset and the bankmeta count are non-zero
Section(tag, address, count, children) ==
  Elem(tag, IF address # 0 /\ count # 0 THEN [address |-> address] ELSE NoAttrib, children)

\* create_xml_bank: the tree it writes
create_xml_bank(meta, ab, R) ==
  With(Audiobank_to_xml(ab, R, meta), LAMBDA x :
    IF ~x.ok THEN ExportRaises
    ELSE Exported(
      Elem("bank", [NUM_INST |-> meta.num_instruments, NUM_DRUM |-> meta.num_drums,
                    NUM_SFX |-> meta.num_effects, ATnum |-> meta.table_id],
        <<Section("abindexentry", 0, 0, <<Bankmeta_to_dict(meta)>>),
          Section("abheader", 0, 0, <<Elem("struct", [name |-> "ABHeader"], <<>>)>>),
          Section("abbank", 0, 0, x.abbank),
          Section("abdrumlist", ab.drumlist_offset, meta.num_drums, x.abdrumlist),
          Section("absfxlist", ab.sfxlist_offset, meta.num_effects, x.absfxlist),
          Section("instruments", 0, 0, x.instruments),
          Section("drums", 0, 0, x.drums),
          Section("envelopes", 0, 0, x.envelopes),
          Section("samples", 0, 0, x.samples),
          Section("aladpcmbooks", 0, 0, x.aladpcmbooks),
          Section("aladpcmloops", 0, 0, x.aladpcmloops)>>)))

\* ------------------------------------------------------------- XML import
\* Element.find(tag): <<>> for None, else <<the first child of that tag>>
find(e, tag) ==
  LET hits == SelectSeq(e.children, LAMBDA c : c.tag = tag)
  IN IF hits = <<>> THEN <<>> ELSE <<hits[1]>>

findall(e, tag) == SelectSeq(e.children, LAMBDA c : c.tag = tag)

HasAttr(e, k) == k \in DOMAIN e.attrib

\* item_elem.find("struct").findall("field"): AttributeError without a struct
StructFields(e) ==
  IF find(e, "struct") = <<>> THEN [ok |-> FALSE, fields |-> <<>>]
  ELSE [ok |-> TRUE, fields |-> findall(find(e, "struct")[1], "field")]

\* fields[k].attrib["value"] for the 0-based positions ks: IndexError past the
\* end, KeyError without the attribute
HaveValues(fields, ks) ==
  \A k \in ks : k + 1 <= Len(fields) /\ HasAttr(fields[k + 1], "value")

\* int(elem.attrib.get("index", -1))
IndexOrMinus1(e) == IF HasAttr(e, "index") THEN e.attrib.index ELSE -1

Parsed(val) == [ok |-> TRUE, val |-> val]

ParseRaises == [ok |-> FALSE, val |-> None]

AllParsed(rs) == \A k \in 1..Len(rs) : rs[k].ok

Vals(rs) == [k \in 1..Len(rs) |-> rs[k].val]

parse_abbank(element) ==
  With(StructFields(element), LAMBDA sf :
    \* "return {}", and from_xml then reads data['instrument_list']: KeyError
    IF ~sf.ok THEN ParseRaises
    ELSE IF ~HaveValues(sf.fields, {0, 1}) \/ Len(sf.fields) < 3 THEN ParseRaises
    ELSE Parsed([drum_pointer |-> sf.fields[1].attrib.value,
                 sfx_pointer |-> sf.fields[2].attrib.value,
                 instrument_list |->
                   LET es == findall(sf.fields[3], "element")
                   IN [k \in 1..Len(es) |-> [index |-> IndexOrMinus1(es[k])]]]))

parse_drumlist(drumlist_elem) ==
  With(StructFields(drumlist_elem), LAMBDA sf :
    IF ~sf.ok \/ Len(sf.fields) < 1 THEN ParseRaises
    ELSE Parsed(LET es == findall(sf.fields[1], "element")
                IN [k \in 1..Len(es) |-> [index |-> IndexOrMinus1(es[k])]]))

\* the (sample index, tuning) pair of an ABSound struct, as parse_instrument
\* and parse_drum read it
parse_sound(holder) ==
  With(StructFields(holder), LAMBDA sf :
    IF ~sf.ok \/ Len(sf.fields) < 2 \/ ~HasAttr(sf.fields[2], "value") THEN ParseRaises
    ELSE LET sample_index == IndexOrMinus1(sf.fields[1])
             tuning == sf.fields[2].attrib.value
         IN IF sample_index = -1 /\ ~TuningIsZero(tuning) THEN ParseRaises
            ELSE Parsed([sample |-> sample_index, tuning |-> tuning]))

parse_instrument(item_elem) ==
  With(StructFields(item_elem), LAMBDA sf :
    IF ~sf.ok \/ ~HaveValues(sf.fields, {0, 1, 2, 3}) \/ Len(sf.fields) < 6 THEN ParseRaises
    ELSE LET es == findall(sf.fields[6], "element")
             samples == [k \in 1..Len(es) |-> parse_sound(es[k])]
         IN IF ~AllParsed(samples) THEN ParseRaises
            ELSE Parsed([is_relocated |-> sf.fields[1].attrib.value,
                         key_region_low |-> sf.fields[2].attrib.value,
                         key_region_high |-> sf.fields[3].attrib.value,
                         decay_index |-> sf.fields[4].attrib.value,
                         envelope |-> IndexOrMinus1(sf.fields[5]),
                         samples |-> Vals(samples)]))

parse_drum(item_elem) ==
  With(StructFields(item_elem), LAMBDA sf :
    IF ~sf.ok \/ Len(sf.fields) < 5 THEN ParseRaises
    ELSE With(parse_sound(sf.fields[5]), LAMBDA snd :
      \* sound_struct.findall precedes the field count test; the sample test
      \* follows the padding assertion
      IF find(sf.fields[5], "struct") = <<>> THEN ParseRaises
      ELSE IF Len(sf.fields) # 6 THEN ParseRaises
      ELSE IF ~HaveValues(sf.fields, {0, 1, 2, 3}) THEN ParseRaises
      ELSE IF sf.fields[4].attrib.value # 0 THEN ParseRaises
      ELSE IF ~snd.ok THEN ParseRaises
      ELSE Parsed([decay_index |-> sf.fields[1].attrib.value,
                   pan |-> sf.fields[2].attrib.value,
                   is_relocated |-> sf.fields[3].attrib.value,
                   padding |-> 0,
                   sample |-> snd.val,
                   envelope |-> IndexOrMinus1(sf.fields[6])])))

parse_envelope(item_elem) ==
  With(StructFields(item_elem), LAMBDA sf :
    IF ~sf.ok THEN ParseRaises
    ELSE IF Len(sf.fields) % 2 # 0 THEN ParseRaises
    ELSE IF ~HaveValues(sf.fields, 0..(Len(sf.fields) - 1)) THEN ParseRaises
    ELSE Parsed([points |-> [k \in 1..(Len(sf.fields) \div 2) |->
                               [delay |-> sf.fields[2 * k - 1].attrib.value,
                                arg |-> sf.fields[2 * k].attrib.value]]]))

\* (bitfield >> n) & mask on a 32-bit word held as its signed value
BitsAt(bitfield, n, mask) == BitAnd((bitfield \div (2 ^ n)) % (2 ^ (32 - n)), mask)

parse_sample(item_elem) ==
  With(StructFields(item_elem), LAMBDA sf :
    IF ~sf.ok THEN ParseRaises
    ELSE IF Len(sf.fields) # 4 THEN ParseRaises
    ELSE IF ~HaveValues(sf.fields, {0, 1}) THEN ParseRaises
    \* fields[3].attrib["index"] is read whenever fields[2] has an index
    ELSE IF HasAttr(sf.fields[3], "index") /\ ~HasAttr(sf.fields[4], "index") THEN ParseRaises
    ELSE LET bitfield == sf.fields[1].attrib.value
             unk_0 == IF bitfield < 0 THEN 1 ELSE 0
             codec == BitsAt(bitfield, 28, 7)
             medium == BitsAt(bitfield, 26, ParseSampleMediumMask)
             is_cached == BitsAt(bitfield, 25, 1)
             is_relocated == BitsAt(bitfield, 24, 1)
             size == bitfield % (2 ^ 24)
             loop_index == IndexOrMinus1(sf.fields[3])
             book_index == IF HasAttr(sf.fields[3], "index") THEN sf.fields[4].attrib.index
                           ELSE -1
         IN IF loop_index = -1 \/ book_index = -1 \/ codec \notin {0, 3}
               \/ medium # 0 \/ is_relocated # 0
            THEN ParseRaises
            ELSE Parsed([unk_0 |-> unk_0, codec |-> codec, medium |-> medium,
                         is_cached |-> is_cached, is_relocated |-> is_relocated,
                         size |-> size, sample_pointer |-> sf.fields[2].attrib.value,
                         loop |-> loop_index, book |-> book_index]))

\* array.find("struct").find("field").findall("element") and the 16 values
parse_data_array(array) ==
  IF find(array, "struct") = <<>> THEN ParseRaises
  ELSE IF find(find(array, "struct")[1], "field") = <<>> THEN ParseRaises
  ELSE LET es == findall(find(find(array, "struct")[1], "field")[1], "element")
       IN IF \E k \in 1..Len(es) : ~HasAttr(es[k], "value") THEN ParseRaises
          ELSE IF Len(es) # 16 THEN ParseRaises
          ELSE Parsed([k \in 1..Len(es) |-> es[k].attrib.value])

parse_codebook(item_elem) ==
  With(StructFields(item_elem), LAMBDA sf :
    IF ~sf.ok \/ ~HaveValues(sf.fields, {0, 1}) \/ Len(sf.fields) < 3 THEN ParseRaises
    ELSE LET es == findall(sf.fields[3], "element")
             predictors == [k \in 1..Len(es) |-> parse_data_array(es[k])]
         IN IF Len(es) # sf.fields[2].attrib.value THEN ParseRaises
            ELSE IF ~AllParsed(predictors) THEN ParseRaises
            ELSE Parsed([order |-> sf.fields[1].attrib.value,
                         num_predictors |-> sf.fields[2].attrib.value,
                         predictor_arrays |-> Vals(predictors)]))

\* predictor_array is None without HAS_TAIL="1"; None and [] both make the
\* '>16h' pack of to_bytes raise and are read by nothing else, and both are <<>>
parse_loopbook(item_elem) ==
  With(StructFields(item_elem), LAMBDA sf :
    IF ~sf.ok \/ ~HaveValues(sf.fields, {0, 1, 2, 3}) THEN ParseRaises
    ELSE LET st == find(item_elem, "struct")[1]
             has_tail == HasAttr(st, "HAS_TAIL") /\ st.attrib.HAS_TAIL = "1"
             head == [loop_start |-> sf.fields[1].attrib.value,
                      loop_end |-> sf.fields[2].attrib.value,
                      loop_count |-> sf.fields[3].attrib.value,
                      num_samples |-> sf.fields[4].attrib.value]
         IN IF ~has_tail THEN Parsed(head @@ [predictor_array |-> <<>>])
            ELSE IF Len(sf.fields) < 5 THEN ParseRaises
            ELSE IF find(sf.fields[5], "element") = <<>> THEN ParseRaises
            ELSE With(parse_data_array(find(sf.fields[5], "element")[1]), LAMBDA tail :
                   IF ~tail.ok THEN ParseRaises
                   ELSE Parsed(head @@ [predictor_array |-> tail.val])))

\* Bankmeta.__init__
NewBankmeta ==
  [address |-> 0, size |-> 0, sample_medium |-> 2, seq_player |-> 2, table_id |-> 1,
   font_id |-> 255, num_instruments |-> 16, num_drums |-> 64, num_effects |-> 0]

\* "return {}" without a struct, and Bankmeta.from_xml then reads
\* data['address']: KeyError
parse_abindexentry(element) ==
  With(StructFields(element), LAMBDA sf :
    IF ~sf.ok THEN ParseRaises
    ELSE IF Len(sf.fields) # 9 THEN ParseRaises
    ELSE IF ~HaveValues(sf.fields, 0..8) THEN ParseRaises
    ELSE Parsed([address |-> sf.fields[1].attrib.value,
                 size |-> sf.fields[2].attrib.value,
                 medium |-> sf.fields[3].attrib.value,
                 seq_player |-> sf.fields[4].attrib.value,
                 table_id |-> sf.fields[5].attrib.value,
                 font_id |-> sf.fields[6].attrib.value,
                 num_instruments |-> sf.fields[7].attrib.value,
                 num_drums |-> sf.fields[8].attrib.value,
                 num_effects |-> sf.fields[9].attrib.value]))

\* parse_abindexentry(None) raises AttributeError
Bankmeta_from_xml(bank_elem) ==
  IF find(bank_elem, "abindexentry") = <<>> THEN ParseRaises
  ELSE With(parse_abindexentry(find(bank_elem, "abindexentry")[1]), LAMBDA data :
         IF ~data.ok THEN ParseRaises
         ELSE Parsed([address |-> data.val.address, size |-> data.val.size,
                      sample_medium |-> data.val.medium,
                      seq_player |-> data.val.seq_player,
                      table_id |-> data.val.table_id, font_id |-> data.val.font_id,
                      num_instruments |-> data.val.num_instruments,
                      num_drums |-> data.val.num_drums,
                      num_effects |-> data.val.num_effects]))

\* Audiobank.__init__; the two offsets start as None and are read by nothing
\* before from_bytes assigns them, 0 stands for that None
NewAudiobank ==
  [drumlist_offset |-> 0, sfxlist_offset |-> 0,
   drum_offsets |-> <<>>, effect_offsets |-> <<>>, instrument_offsets |-> <<>>,
   instrument_index_map |-> <<>>, drum_index_map |-> <<>>,
   drums |-> <<>>, effects |-> <<>>, instruments |-> <<>>]

\* ----------------------------------------------------- import: from_dict
\* registry[index] on a registry keyed 0..n-1 (from_xml keys each registry by
\* the position of the item): the 1-based position of the entry, KeyError
\* outside 0..n-1
InRegistry(n, index) == index >= 0 /\ index < n

\* "registry[index] if index != -1 else None"
OptionalRef(index) == IF index = -1 THEN 0 ELSE index + 1

\* from_dict leaves name and offset as __init__ set them; from_xml sets index
AdpcmLoop_from_dict(data, i) ==
  IF data.loop_count \notin {0, -1} THEN ParseRaises
  ELSE Parsed([key |-> i, offset |-> 0, index |-> i, name |-> <<"Loopbook">>,
               loop_start |-> data.loop_start, loop_end |-> data.loop_end,
               loop_count |-> data.loop_count, num_samples |-> data.num_samples,
               predictor_array |-> data.predictor_array])

AdpcmBook_from_dict(data, i) ==
  Parsed([key |-> i, offset |-> 0, index |-> i, name |-> <<"Codebook">>,
          order |-> data.order, num_predictors |-> data.num_predictors,
          predictor_arrays |-> data.predictor_arrays])

Sample_from_dict(data, i, num_loops, num_books) ==
  IF data.loop # -1 /\ ~InRegistry(num_loops, data.loop) THEN ParseRaises
  ELSE IF data.book # -1 /\ ~InRegistry(num_books, data.book) THEN ParseRaises
  ELSE IF data.loop = -1 \/ data.book = -1 \/ ~CodecAccepted(data.codec)
          \/ ~MediumAccepted(data.medium) \/ data.is_relocated # 0
  THEN ParseRaises
  ELSE Parsed([key |-> i, offset |-> 0, index |-> i, name |-> "Sample", bits |-> 0,
               unk_0 |-> data.unk_0, codec |-> data.codec, medium |-> data.medium,
               is_cached |-> data.is_cached, is_relocated |-> data.is_relocated,
               size |-> data.size, table_offset |-> data.sample_pointer,
               loopbook_offset |-> 0, codebook_offset |-> 0,
               loopbook |-> OptionalRef(data.loop), codebook |-> OptionalRef(data.book)])

Envelope_from_dict(data, i) ==
  Parsed([key |-> i, offset |-> 0, index |-> i, name |-> "Envelope",
          points |-> [k \in 1..Len(data.points) |->
                        <<data.points[k].delay, data.points[k].arg>>]])

Instrument_from_dict(data, i, num_envelopes, num_samples) ==
  IF data.envelope # -1 /\ ~InRegistry(num_envelopes, data.envelope) THEN ParseRaises
  \* data['samples'][0..2]: IndexError with fewer than three
  ELSE IF Len(data.samples) < 3 THEN ParseRaises
  ELSE IF \E k \in 1..3 : data.samples[k].sample # -1
                          /\ ~InRegistry(num_samples, data.samples[k].sample)
  THEN ParseRaises
  ELSE Parsed([offset |-> 0, index |-> i, name |-> <<"Instrument">>,
               is_relocated |-> data.is_relocated, key_region_low |-> data.key_region_low,
               key_region_high |-> data.key_region_high, decay_index |-> data.decay_index,
               envelope_offset |-> 0,
               low_sample_offset |-> 0, low_sample_tuning |-> data.samples[1].tuning,
               prim_sample_offset |-> 0, prim_sample_tuning |-> data.samples[2].tuning,
               high_sample_offset |-> 0, high_sample_tuning |-> data.samples[3].tuning,
               envelope |-> OptionalRef(data.envelope),
               low_sample |-> OptionalRef(data.samples[1].sample),
               prim_sample |-> OptionalRef(data.samples[2].sample),
               high_sample |-> OptionalRef(data.samples[3].sample)])

\* the from_dict that takes a sample index of -1 as "no sample"
Drum_from_dictOptional(data, i, num_envelopes, num_samples) ==
  IF data.sample.sample # -1 /\ ~InRegistry(num_samples, data.sample.sample) THEN ParseRaises
  ELSE IF data.envelope # -1 /\ ~InRegistry(num_envelopes, data.envelope) THEN ParseRaises
  ELSE Parsed([offset |-> 0, index |-> i, name |-> <<"Drum">>,
               decay_index |-> data.decay_index, pan |-> data.pan,
               is_relocated |-> data.is_relocated,
               sample_offset |-> 0, sample_tuning |-> data.sample.tuning,
               envelope_offset |-> 0,
               sample |-> OptionalRef(data.sample.sample),
               envelope |-> OptionalRef(data.envelope)])

Drum_from_dict(data, i, num_envelopes, num_samples) ==
  \* sample_registry[data['sample']['sample']] without a test for -1
  IF ~InRegistry(num_samples, data.sample.sample) THEN ParseRaises
  ELSE IF data.envelope # -1 /\ ~InRegistry(num_envelopes, data.envelope) THEN ParseRaises
  ELSE Parsed([offset |-> 0, index |-> i, name |-> <<"Drum">>,
               decay_index |-> data.decay_index, pan |-> data.pan,
               is_relocated |-> data.is_relocated,
               sample_offset |-> 0, sample_tuning |-> data.sample.tuning,
               envelope_offset |-> 0,
               sample |-> data.sample.sample + 1, envelope |-> OptionalRef(data.envelope)])

\* "for i, item in enumerate(section.findall('item'))": parse, then from_dict
Items(bank_elem, tag) ==
  IF find(bank_elem, tag) = <<>> THEN <<>> ELSE findall(find(bank_elem, tag)[1], "item")

Build(items, parse(_), from_dict(_, _)) ==
  [k \in 1..Len(items) |->
     With(parse(items[k]), LAMBDA data :
       IF ~data.ok THEN ParseRaises ELSE from_dict(data.val, k - 1))]

Indices(entries) == [k \in 1..Len(entries) |-> entries[k].index]

ImportRaises == [ok |-> FALSE, ab |-> NewAudiobank, R |-> EmptyR]

\* the position of a section among the children of the bank element, 0 for
\* a section that the document does not have
SectionPos(bank_elem, tag) ==
  IF find(bank_elem, tag) = <<>> THEN 0
  ELSE CHOOSE k \in 1..Len(bank_elem.children) :
         /\ bank_elem.children[k].tag = tag
         /\ \A j \in 1..(k - 1) : bank_elem.children[j].tag # tag

\* the entries of section "used" that a build of section "user" would see if
\* the sections were built in the order of the document
SeenInDocumentOrder(bank_elem, user, used, entries) ==
  IF SectionPos(bank_elem, used) < SectionPos(bank_elem, user) THEN Len(entries) ELSE 0

\* a from_xml that walks the children of the bank element in document order
Audiobank_from_xmlDocumentOrder(bank_elem) ==
  With(IF find(bank_elem, "abbank") = <<>> THEN Parsed([instrument_list |-> <<>>])
       ELSE parse_abbank(find(bank_elem, "abbank")[1]), LAMBDA abbank :
  IF ~abbank.ok THEN ImportRaises ELSE
  With(IF find(bank_elem, "abdrumlist") = <<>> THEN Parsed(<<>>)
       ELSE parse_drumlist(find(bank_elem, "abdrumlist")[1]), LAMBDA drumlist :
  IF ~drumlist.ok THEN ImportRaises ELSE
  With(Build(Items(bank_elem, "aladpcmloops"), parse_loopbook, AdpcmLoop_from_dict),
       LAMBDA loops :
  IF ~AllParsed(loops) THEN ImportRaises ELSE
  With(Build(Items(bank_elem, "aladpcmbooks"), parse_codebook, AdpcmBook_from_dict),
       LAMBDA books :
  IF ~AllParsed(books) THEN ImportRaises ELSE
  With(Build(Items(bank_elem, "samples"), parse_sample,
             LAMBDA data, i :
               Sample_from_dict(data, i,
                 SeenInDocumentOrder(bank_elem, "samples", "aladpcmloops", loops),
                 SeenInDocumentOrder(bank_elem, "samples", "aladpcmbooks", books))),
       LAMBDA samples :
  IF ~AllParsed(samples) THEN ImportRaises ELSE
  With(Build(Items(bank_elem, "envelopes"), parse_envelope, Envelope_from_dict),
       LAMBDA envelopes :
  IF ~AllParsed(envelopes) THEN ImportRaises ELSE
  With(Build(Items(bank_elem, "instruments"), parse_instrument,
             LAMBDA data, i :
               Instrument_from_dict(data, i,
                 SeenInDocumentOrder(bank_elem, "instruments", "envelopes", envelopes),
                 SeenInDocumentOrder(bank_elem, "instruments", "samples", samples))),
       LAMBDA instruments :
  IF ~AllParsed(instruments) THEN ImportRaises ELSE
  With(Build(Items(bank_elem, "drums"), parse_drum,
             LAMBDA data, i :
               Drum_from_dict(data, i,
                 SeenInDocumentOrder(bank_elem, "drums", "envelopes", envelopes),
                 SeenInDocumentOrder(bank_elem, "drums", "samples", samples))),
       LAMBDA drums :
  IF ~AllParsed(drums) THEN ImportRaises ELSE
  [ok |-> TRUE,
   ab |-> [NewAudiobank EXCEPT
             !.instrument_index_map = Indices(abbank.val.instrument_list),
             !.drum_index_map = Indices(drumlist.val),
             !.instruments = Vals(instruments),
             !.drums = Vals(drums)],
   R |-> [EmptyR EXCEPT
            !.loopbook_registry = Vals(loops),
            !.codebook_registry = Vals(books),
            !.sample_registry = Vals(samples),
            !.envelope_registry = Vals(envelopes)]]))))))))

Audiobank_from_xml(bank_elem) ==
  With(IF find(bank_elem, "abbank") = <<>> THEN Parsed([instrument_list |-> <<>>])
       ELSE parse_abbank(find(bank_elem, "abbank")[1]), LAMBDA abbank :
  IF ~abbank.ok THEN ImportRaises ELSE
  With(IF find(bank_elem, "abdrumlist") = <<>> THEN Parsed(<<>>)
       ELSE parse_drumlist(find(bank_elem, "abdrumlist")[1]), LAMBDA drumlist :
  IF ~drumlist.ok THEN ImportRaises ELSE
  With(Build(Items(bank_elem, "aladpcmloops"), parse_loopbook, AdpcmLoop_from_dict),
       LAMBDA loops :
  IF ~AllParsed(loops) THEN ImportRaises ELSE
  With(Build(Items(bank_elem, "aladpcmbooks"), parse_codebook, AdpcmBook_from_dict),
       LAMBDA books :
  IF ~AllParsed(books) THEN ImportRaises ELSE
  With(Build(Items(bank_elem, "samples"), parse_sample,
             LAMBDA data, i : Sample_from_dict(data, i, Len(loops), Len(books))),
       LAMBDA samples :
  IF ~AllParsed(samples) THEN ImportRaises ELSE
  With(Build(Items(bank_elem, "envelopes"), parse_envelope, Envelope_from_dict),
       LAMBDA envelopes :
  IF ~AllParsed(envelopes) THEN ImportRaises ELSE
  With(Build(Items(bank_elem, "instruments"), parse_instrument,
             LAMBDA data, i : Instrument_from_dict(data, i, Len(envelopes), Len(samples))),
       LAMBDA instruments :
  IF ~AllParsed(instruments) THEN ImportRaises ELSE
  With(Build(Items(bank_elem, "drums"), parse_drum,
             LAMBDA data, i : Drum_from_dict(data, i, Len(envelopes), Len(samples))),
       LAMBDA drums :
  IF ~AllParsed(drums) THEN ImportRaises ELSE
  [ok |-> TRUE,
   ab |-> [NewAudiobank EXCEPT
             !.instrument_index_map = Indices(abbank.val.instrument_list),
             !.drum_index_map = Indices(drumlist.val),
             !.instruments = Vals(instruments),
             !.drums = Vals(drums)],
   R |-> [EmptyR EXCEPT
            !.loopbook_registry = Vals(loops),
            !.codebook_registry = Vals(books),
            !.sample_registry = Vals(samples),
            !.envelope_registry = Vals(envelopes)]]))))))))

\* ------------------------------------------------------- encode: to_bytes
\* struct.pack of one record: the words, or struct.error / ValueError
Packed(words) == [ok |-> TRUE, words |-> words]

PackRaises == [ok |-> FALSE, words |-> <<>>]

AllS16(vals) == \A k \in 1..Len(vals) : IsS16(vals[k])

\* '>' + 'h' * len(flat_values), one word for each (delay, arg), padded
Envelope_to_bytes(e) ==
  IF ~AllS16(Flat(e.points)) THEN PackRaises
  ELSE Packed(add_padding_to_16(
         [k \in 1..Len(e.points) |-> e.points[k][1] * U16 + ToU16(e.points[k][2])]))

\* '>2I 1i 1I', then '>16h' of the tail when loop_count != 0
AdpcmLoop_to_bytes(l) ==
  IF ~IsU32(l.loop_start) \/ ~IsU32(l.loop_end) \/ ~IsU32(l.num_samples) THEN PackRaises
  ELSE IF l.loop_count = 0
  THEN Packed(add_padding_to_16(<<l.loop_start, l.loop_end, l.loop_count, l.num_samples>>))
  ELSE IF Len(l.predictor_array) # 16 \/ ~AllS16(l.predictor_array) THEN PackRaises
  ELSE Packed(add_padding_to_16(<<l.loop_start, l.loop_end, l.loop_count, l.num_samples>>
                                \o Pack16h(l.predictor_array)))

RECURSIVE Concat16h(_)
Concat16h(arrays) ==
  IF arrays = <<>> THEN <<>> ELSE Pack16h(Head(arrays)) \o Concat16h(Tail(arrays))

\* '>2i', then '>16h' of each array
AdpcmBook_to_bytes(b) ==
  IF \E k \in 1..Len(b.predictor_arrays) :
       Len(b.predictor_arrays[k]) # 16 \/ ~AllS16(b.predictor_arrays[k])
  THEN PackRaises
  ELSE Packed(add_padding_to_16(<<b.order, b.num_predictors>>
                                \o Concat16h(b.predictor_arrays)))

\* the bit field is rebuilt from the fields, self.bits is not read
SampleBits(sm) ==
  (IF sm.unk_0 % 2 = 1 THEN MinS32 ELSE 0)
  + (sm.codec % 8) * (2 ^ 28) + (sm.medium % 4) * (2 ^ 26)
  + (sm.is_cached % 2) * (2 ^ 25) + (sm.is_relocated % 2) * (2 ^ 24)
  + (sm.size % (2 ^ 24))

\* '>4I'
Sample_to_bytes(sm) ==
  IF ~IsU32(sm.table_offset) \/ ~IsU32(sm.loopbook_offset) \/ ~IsU32(sm.codebook_offset)
  THEN PackRaises
  ELSE Packed(<<SampleBits(sm), sm.table_offset, sm.loopbook_offset, sm.codebook_offset>>)

\* '>4B 1I 1I1f 1I1f 1I1f'
Instrument_to_bytes(i) ==
  IF ~IsU8(i.is_relocated) \/ ~IsU8(i.key_region_low) \/ ~IsU8(i.key_region_high)
     \/ ~IsU8(i.decay_index) \/ ~IsU32(i.envelope_offset) \/ ~IsU32(i.low_sample_offset)
     \/ ~IsU32(i.prim_sample_offset) \/ ~IsU32(i.high_sample_offset)
  THEN PackRaises
  ELSE Packed(<<PackBytes(i.is_relocated, i.key_region_low, i.key_region_high, i.decay_index),
                i.envelope_offset,
                i.low_sample_offset, i.low_sample_tuning,
                i.prim_sample_offset, i.prim_sample_tuning,
                i.high_sample_offset, i.high_sample_tuning>>)

\* '>3B 1x 1I1f 1I'
Drum_to_bytes(d) ==
  IF ~IsU8(d.decay_index) \/ ~IsU8(d.pan) \/ ~IsU8(d.is_relocated)
     \/ ~IsU32(d.sample_offset) \/ ~IsU32(d.envelope_offset)
  THEN PackRaises
  ELSE Packed(<<PackBytes(d.decay_index, d.pan, d.is_relocated, 0),
                d.sample_offset, d.sample_tuning, d.envelope_offset>>)

\* binary_data[off:off + 4 * Len(words)] = words
WriteAt(buffer, off, words) ==
  [k \in 1..Len(buffer) |->
     IF k > off \div 4 /\ k <= (off \div 4) + Len(words) THEN words[k - (off \div 4)]
     ELSE buffer[k]]

RECURSIVE WriteAll(_, _, _)
\* one "binary_data[x.offset:x.offset + size] = x.to_bytes()" for each record
WriteAll(buffer, offsets, records) ==
  IF records = <<>> THEN buffer
  ELSE WriteAll(WriteAt(buffer, Head(offsets), Head(records)), Tail(offsets), Tail(records))

RECURSIVE Allocate(_, _)
\* "x.offset = offset; offset += size" over a list of sizes: the offsets given
Allocate(sizes, offset) ==
  IF sizes = <<>> THEN <<>>
  ELSE <<offset>> \o Allocate(Tail(sizes), offset + Head(sizes))

RECURSIVE Sum(_)
Sum(sizes) == IF sizes = <<>> THEN 0 ELSE Head(sizes) + Sum(Tail(sizes))

Offsets(list) == [k \in 1..Len(list) |-> list[k].offset]

\* x.offset = offsets[k] for each entry of the list
Placed(list, offsets) == [k \in 1..Len(list) |-> [list[k] EXCEPT !.offset = offsets[k]]]

Sizes(packed) == [k \in 1..Len(packed) |-> align_to_16(4 * Len(packed[k].words))]

Words(packed) == [k \in 1..Len(packed) |-> packed[k].words]

AllPacked(packed) == \A k \in 1..Len(packed) : packed[k].ok

\* -------------------------------------------------- encode: the Audiobank
\* the patch pass that leaves every pointer field as it was
PatchedStale(field, ref, registry) == field

\* "if x.ref: x.ref_offset = x.ref.offset": the field keeps its value when the
\* reference is None
Patched(field, ref, registry) == IF ref # 0 THEN registry[ref].offset ELSE field

\* Audiobank.update_internal_offsets on records that hold their offsets; a
\* None in instruments, drums or effects raises AttributeError
update_internal_offsets(ab, R) ==
  IF \E k \in 1..Len(ab.instruments) : IsNone(ab.instruments[k]) THEN [ok |-> FALSE, ab |-> ab, R |-> R]
  ELSE IF \E k \in 1..Len(ab.drums) : IsNone(ab.drums[k]) THEN [ok |-> FALSE, ab |-> ab, R |-> R]
  ELSE IF \E k \in 1..Len(ab.effects) : IsNone(ab.effects[k]) THEN [ok |-> FALSE, ab |-> ab, R |-> R]
  ELSE
  [ok |-> TRUE,
   ab |-> [ab EXCEPT
     !.instruments = [k \in 1..Len(ab.instruments) |->
        LET i == ab.instruments[k]
        IN [i EXCEPT
              !.envelope_offset = Patched(@, i.envelope, R.envelope_registry),
              !.low_sample_offset = Patched(@, i.low_sample, R.sample_registry),
              !.prim_sample_offset = Patched(@, i.prim_sample, R.sample_registry),
              !.high_sample_offset = Patched(@, i.high_sample, R.sample_registry)]],
     !.drums = [k \in 1..Len(ab.drums) |->
        LET d == ab.drums[k]
        IN [d EXCEPT
              !.sample_offset = Patched(@, d.sample, R.sample_registry),
              !.envelope_offset = Patched(@, d.envelope, R.envelope_registry)]],
     !.effects = [k \in 1..Len(ab.effects) |->
        LET e == ab.effects[k]
        IN [e EXCEPT !.sample_offset = Patched(@, e.sample, R.sample_registry)]]],
   R |-> [R EXCEPT
     !.sample_registry = [k \in 1..Len(R.sample_registry) |->
        LET sm == R.sample_registry[k]
        IN [sm EXCEPT
              !.loopbook_offset = Patched(@, sm.loopbook, R.loopbook_registry),
              !.codebook_offset = Patched(@, sm.codebook, R.codebook_registry)]]]]

\* the table slot of "if index != -1 and 0 <= index < len(list) and
\* list[index] is not None", 0 (the temporary value) otherwise
TableSlot(list, index) ==
  IF index # -1 /\ 0 <= index /\ index < Len(list) /\ ~IsNone(list[index + 1])
  THEN list[index + 1].offset
  ELSE 0

Table(list, index_map) == [k \in 1..Len(index_map) |-> TableSlot(list, index_map[k])]

\* Bankmeta.to_bytes: '>6B1H'
Bankmeta_to_bytes(meta) ==
  IF \/ ~IsU8(meta.sample_medium) \/ ~IsU8(meta.seq_player) \/ ~IsU8(meta.table_id)
     \/ ~IsU8(meta.font_id) \/ ~IsU8(meta.num_instruments) \/ ~IsU8(meta.num_drums)
     \/ meta.num_effects < 0 \/ meta.num_effects >= U16
  THEN PackRaises
  ELSE Packed(<<PackBytes(meta.sample_medium, meta.seq_player, meta.table_id, meta.font_id),
                PackBytes(meta.num_instruments, meta.num_drums,
                          meta.num_effects \div 256, meta.num_effects % 256)>>)

EncodeRaises(ab, R) == [ok |-> FALSE, data |-> <<>>, ab |-> ab, R |-> R]

PackAll(list, to_bytes(_)) == [k \in 1..Len(list) |-> to_bytes(list[k])]

\* Audiobank.to_bytes: the buffer, and the bank with the offsets and pointer
\* fields the call left in its records.  The offsets a failing call set before
\* it raised are not kept: main() ends on the exception.
Audiobank_to_bytes(ab, R) ==
  LET abbank_size == align_to_16(HeaderSize + 4 * Len(ab.instrument_index_map))
      drumlist_offset == abbank_size
      drumlist_size == align_to_16(4 * Len(ab.drum_index_map))
      instruments_offset == drumlist_offset + drumlist_size
      drums_offset == instruments_offset + InstrumentSize * Len(ab.instruments)
      samples_offset == drums_offset + DrumSize * Len(ab.drums)
      envelopes_offset == samples_offset + SampleSize * Len(R.sample_registry)
  IN
  \* "instrument.offset = offset" / "drum.offset = offset" on None
  IF \E k \in 1..Len(ab.instruments) : IsNone(ab.instruments[k]) THEN EncodeRaises(ab, R)
  ELSE IF \E k \in 1..Len(ab.drums) : IsNone(ab.drums[k]) THEN EncodeRaises(ab, R)
  ELSE
  With(PackAll(R.envelope_registry, Envelope_to_bytes), LAMBDA envelopes :
  IF ~AllPacked(envelopes) THEN EncodeRaises(ab, R) ELSE
  With(PackAll(R.loopbook_registry, AdpcmLoop_to_bytes), LAMBDA loopbooks :
  IF ~AllPacked(loopbooks) THEN EncodeRaises(ab, R) ELSE
  With(PackAll(R.codebook_registry, AdpcmBook_to_bytes), LAMBDA codebooks :
  IF ~AllPacked(codebooks) THEN EncodeRaises(ab, R) ELSE
  LET loopbooks_offset == envelopes_offset + Sum(Sizes(envelopes))
      codebooks_offset == loopbooks_offset + Sum(Sizes(loopbooks))
      total_size == align_to_16(codebooks_offset + Sum(Sizes(codebooks)))
      placed_ab == [ab EXCEPT
        !.instruments = Placed(@, Allocate([k \in 1..Len(ab.instruments) |-> InstrumentSize],
                                           instruments_offset)),
        !.drums = Placed(@, Allocate([k \in 1..Len(ab.drums) |-> DrumSize], drums_offset))]
      placed_R == [R EXCEPT
        !.sample_registry =
           Placed(@, Allocate([k \in 1..Len(R.sample_registry) |-> SampleSize], samples_offset)),
        !.envelope_registry = Placed(@, Allocate(Sizes(envelopes), envelopes_offset)),
        !.loopbook_registry = Placed(@, Allocate(Sizes(loopbooks), loopbooks_offset)),
        !.codebook_registry = Placed(@, Allocate(Sizes(codebooks), codebooks_offset))]
  IN
  With(update_internal_offsets(placed_ab, placed_R), LAMBDA u :
  IF ~u.ok THEN EncodeRaises(ab, R) ELSE
  With(PackAll(u.ab.instruments, Instrument_to_bytes), LAMBDA instruments :
  IF ~AllPacked(instruments) THEN EncodeRaises(ab, R) ELSE
  With(PackAll(u.ab.drums, Drum_to_bytes), LAMBDA drums :
  IF ~AllPacked(drums) THEN EncodeRaises(ab, R) ELSE
  With(PackAll(u.R.sample_registry, Sample_to_bytes), LAMBDA samples :
  IF ~AllPacked(samples) THEN EncodeRaises(ab, R) ELSE
  LET \* header: the drum list offset, and the effect list word left at 0
      abbank_data == <<drumlist_offset, 0>> \o Table(u.ab.instruments, ab.instrument_index_map)
      drumlist_data == Table(u.ab.drums, ab.drum_index_map)
      b0 == Zeros(total_size \div 4)
      b1 == WriteAt(b0, 0, abbank_data)
      b2 == WriteAt(b1, drumlist_offset, drumlist_data)
      b3 == WriteAll(b2, Offsets(u.ab.instruments), Words(instruments))
      b4 == WriteAll(b3, Offsets(u.ab.drums), Words(drums))
      b5 == WriteAll(b4, Offsets(u.R.sample_registry), Words(samples))
      b6 == WriteAll(b5, Offsets(u.R.envelope_registry), Words(envelopes))
      b7 == WriteAll(b6, Offsets(u.R.loopbook_registry), Words(loopbooks))
      b8 == WriteAll(b7, Offsets(u.R.codebook_registry), Words(codebooks))
  IN [ok |-> TRUE, data |-> b8, ab |-> u.ab, R |-> u.R])))))))

\* ------------------------------------------------------------------ state
VARIABLES
  pc,             \* where the conversion stands
  slot,           \* table slot the decode loop is at
  valid_index,    \* valid_drum_index / valid_instrument_index of from_bytes
  bank_data,      \* the buffer being decoded
  bankmeta,       \* Bankmeta
  DETECTED_GAME,  \* Sample.py module globals
  AUDIOTABLE_ID,
  audiobank,      \* the Audiobank object: offsets, tables, lists, index maps
  registries,     \* its four registries, and the log of from_bytes calls
  bank_xml,       \* the element tree written by create_xml_bank / read by from_xml
  binary_data,    \* the buffer returned by to_bytes
  first,          \* the graph of the first decode, kept for the re-decode
  files           \* the output files written so far, in the order of writing

vars == <<pc, slot, valid_index, bank_data, bankmeta, DETECTED_GAME, AUDIOTABLE_ID,
          audiobank, registries, bank_xml, binary_data, first, files>>

\* ------------------------------------------------------------ input banks
\* Layout of the input buffers: header and instrument table, drum list, effect
\* list, then a pool of two instruments, one drum, two samples, two envelopes,
\* two loops and two books at fixed offsets.
DL == align_to_16(HeaderSize + 4 * MaxInst)
SL == DL + align_to_16(4 * MaxDrum)
PB == SL + align_to_16(EffectSize * MaxEff)
I1 == PB
I2 == I1 + InstrumentSize
D1 == I2 + InstrumentSize
S1 == D1 + DrumSize
S2 == S1 + SampleSize
E1 == S2 + SampleSize
E2 == E1 + 16
L1 == E2 + 16
L2 == L1 + LoopHeaderSize
B1 == L2 + LoopHeaderSize + LoopTailSize
B2 == B1 + align_to_16(BookHeaderSize + 2 * PredictorSize)
BankEnd == B2 + BookHeaderSize + 2 * PredictorSize

\* float32 1.0: exponent 127, mantissa 0
T1 == 127 * (2 ^ 23)

PairWord(delay, arg) == delay * U16 + ToU16(arg)

EnvWords(flat) == [k \in 1..(Len(flat) \div 2) |-> PairWord(flat[2 * k - 1], flat[2 * k])]

PadTo(words, n) == words \o Zeros(n - Len(words))

\* the contents of the pool a variant chooses
BaseVariant ==
  [env1 |-> E1, low1 |-> <<0, 0>>, keylow1 |-> 0, env2 |-> E1, e2 |-> "same",
   loop2 |-> L1, book2 |-> B1, npred2 |-> 2, bits2 |-> 805306400,
   dsample |-> S1, denv |-> E1, l1count |-> 0, l1start |-> 0]

Variants ==
  { BaseVariant,
    [BaseVariant EXCEPT !.env1 = 0],
    [BaseVariant EXCEPT !.low1 = <<0, T1>>],
    [BaseVariant EXCEPT !.low1 = <<0, T1>>, !.keylow1 = 5],
    [BaseVariant EXCEPT !.keylow1 = 5],
    [BaseVariant EXCEPT !.low1 = <<S2, T1>>],
    [BaseVariant EXCEPT !.env2 = E2],
    [BaseVariant EXCEPT !.env2 = E2, !.e2 = "v2"],
    [BaseVariant EXCEPT !.env2 = E2, !.e2 = "bad"],
    [BaseVariant EXCEPT !.env2 = E2, !.e2 = "arg"],
    \* an envelope pointer at the last two pairs of the buffer, at its end,
    \* and past its end
    [BaseVariant EXCEPT !.env2 = BankEnd - 8],
    [BaseVariant EXCEPT !.env2 = BankEnd],
    [BaseVariant EXCEPT !.env2 = BankEnd + 4],
    [BaseVariant EXCEPT !.loop2 = L2, !.book2 = B2],
    [BaseVariant EXCEPT !.env2 = E2, !.loop2 = L2, !.book2 = B2],
    [BaseVariant EXCEPT !.loop2 = L2, !.book2 = B2, !.npred2 = 4],
    [BaseVariant EXCEPT !.bits2 = 134217760],
    [BaseVariant EXCEPT !.bits2 = 268435488],
    [BaseVariant EXCEPT !.bits2 = 1610612768],
    [BaseVariant EXCEPT !.bits2 = 16777248],
    [BaseVariant EXCEPT !.loop2 = 0],
    [BaseVariant EXCEPT !.book2 = 0],
    [BaseVariant EXCEPT !.book2 = B2, !.npred2 = 3],
    [BaseVariant EXCEPT !.dsample = 0],
    [BaseVariant EXCEPT !.dsample = S2],
    [BaseVariant EXCEPT !.denv = 0, !.env1 = 0],
    [BaseVariant EXCEPT !.l1count = 1],
    [BaseVariant EXCEPT !.l1start = 16] }

InstPtrs == {0, I1, I2}
DrumPtrs == {0, D1}
EffectRecords == {<<0, 0>>, <<S1, T1>>, <<0, T1>>}

BankInput(islots, dslots, effs, v) ==
  PadTo(<<DL, SL>> \o islots, DL \div 4)
  \o PadTo(dslots, (SL - DL) \div 4)
  \o PadTo([k \in 1..(2 * Len(effs)) |-> effs[(k + 1) \div 2][2 - (k % 2)]], (PB - SL) \div 4)
  \* I1, I2
  \o <<PackBytes(0, v.keylow1, 127, 255), v.env1, v.low1[1], v.low1[2], S1, T1, 0, 0>>
  \o <<PackBytes(0, 0, 127, 255), v.env2, 0, 0, S2, T1, S1, T1>>
  \* D1
  \o <<PackBytes(255, 64, 0, 0), v.dsample, T1, v.denv>>
  \* S1, S2
  \o <<16, 0, L1, B1>>
  \o <<v.bits2, 16, v.loop2, v.book2>>
  \* E1, E2
  \o EnvWords(VANILLA_ENVELOPES[1].data)
  \o (CASE v.e2 = "same" -> EnvWords(VANILLA_ENVELOPES[1].data)
        [] v.e2 = "v2" -> EnvWords(VANILLA_ENVELOPES[2].data)
        [] v.e2 = "arg" -> EnvWords(<<1, 32700, -1, 7, 1, 32700, -1, 0>>)
        [] OTHER -> EnvWords(<<2, 32700, -1, 0, 0, 0, 0, 0>>))
  \* L1 (no tail), L2 (tail)
  \o <<v.l1start, 100, v.l1count, 100>>
  \o <<16, 100, -1, 100>> \o Pack16h([k \in 1..16 |-> k - 8])
  \* B1, B2 (the buffer ends after B2's second predictor array)
  \o PadTo(<<2, 2>> \o Pack16h([k \in 1..16 |-> k]) \o Pack16h([k \in 1..16 |-> -k]),
           (B2 - B1) \div 4)
  \o <<2, v.npred2>> \o Pack16h([k \in 1..16 |-> 2 * k]) \o Pack16h([k \in 1..16 |-> 0])

\* -------------------------------------------------------------- input XML
\* The documents of the XML mode keep an item's fields under a "struct"
\* element; a pointer field carries "index" when it points at something.
XmlPtr(name, index) == IF index = -1 THEN Field(name, 0) ELSE PtrField(name, 0, index)

XmlSound(tag, attrib, sound) ==
  Elem(tag, attrib,
       <<Elem("struct", [name |-> "ABSound"],
              <<XmlPtr("Sample Pointer", sound[1]), Field("Sample Tuning", sound[2])>>)>>)

XmlItem(struct_name, fields) ==
  Elem("item", NoAttrib, <<Elem("struct", [name |-> struct_name], fields)>>)

XmlInstrument(i) ==
  XmlItem("ABInstrument",
    <<Field("Relocated (Bool)", 0),
      Field("Key Region Low (Max Range)", i.key_region_low),
      Field("Key Region High (Min Range)", i.key_region_high),
      Field("Decay Index", i.decay_index),
      XmlPtr("Envelope Pointer", i.envelope),
      Elem("field", [name |-> "Sample Pointer Array"],
        <<XmlSound("element", [value |-> 0], i.low),
          XmlSound("element", [value |-> 0], i.prim),
          XmlSound("element", [value |-> 0], i.high)>>)>>)

XmlDrum(d) ==
  XmlItem("ABDrum",
    <<Field("Decay Index", 255), Field("Pan", 64), Field("Relocated (Bool)", 0),
      Field("Padding Byte", 0),
      XmlSound("field", [name |-> "Drum Sound"], d.sound),
      XmlPtr("Envelope Pointer", d.envelope)>>)

XmlEnvelope(flat) ==
  XmlItem("ABEnvelope",
    [k \in 1..Len(flat) |->
       Field(<<IF k % 2 = 1 THEN "Delay" ELSE "Argument", (k + 1) \div 2>>, flat[k])])

XmlSample(sm) ==
  XmlItem("ABSample",
    <<Field("Bitfield", sm.bits), Field("Audiotable Address", 16),
      XmlPtr("Loop Pointer", sm.loop), XmlPtr("Book Pointer", sm.book)>>)

\* a loop item as Audiobank.to_xml writes it for loop_count
LoopOf(loop_count) ==
  [loop_start |-> 0, loop_count |-> loop_count, has_tail |-> loop_count = -1]

XmlLoop(l) ==
  Elem("item", NoAttrib,
    <<Elem("struct", [name |-> "ALADPCMLoop",
                      HAS_TAIL |-> IF l.has_tail THEN "1" ELSE "0"],
        <<Field("Loop Start", l.loop_start),
          Field("Loop End (Sample Length if Count = 0)", 100),
          Field("Loop Count", l.loop_count),
          Field("Number of Samples", 100),
          Elem("field", [name |-> "Loopbook"],
               IF l.has_tail
               THEN <<DataArray("ALADPCMTail", [k \in 1..16 |-> k - 8])>>
               ELSE <<>>)>>)>>)

XmlBook ==
  Elem("item", NoAttrib,
    <<Elem("struct", [name |-> "ALADPCMBook", NUM_PRED |-> 2],
        <<Field("Order", 2), Field("Number of Predictors", 2),
          Elem("field", [name |-> "Codebook"],
               <<DataArray("ALADPCMPredictor", [k \in 1..16 |-> k]),
                 DataArray("ALADPCMPredictor", [k \in 1..16 |-> -k])>>)>>)>>)

XmlTable(index_map) ==
  [k \in 1..Len(index_map) |->
     IF index_map[k] = -1 THEN ValueElement(0)
     ELSE Elem("element", [value |-> 0, index |-> index_map[k]], <<>>)]

\* the metadata of an input bank
Meta(ni, nd, ne) ==
  [NewBankmeta EXCEPT !.num_instruments = ni, !.num_drums = nd, !.num_effects = ne]

\* what a variant puts in the item lists, and the metadata it declares for
\* tables of ni and nd slots
XmlBaseVariant ==
  [instruments |->
     <<[key_region_low |-> 0, key_region_high |-> 127, decay_index |-> 255,
        envelope |-> 0, low |-> <<-1, 0>>, prim |-> <<0, T1>>, high |-> <<-1, 0>>],
       [key_region_low |-> 10, key_region_high |-> 127, decay_index |-> 255,
        envelope |-> 1, low |-> <<0, T1>>, prim |-> <<1, T1>>, high |-> <<-1, 0>>]>>,
   drums |-> <<[sound |-> <<0, T1>>, envelope |-> 0]>>,
   envelopes |-> <<VANILLA_ENVELOPES[1].data, VANILLA_ENVELOPES[2].data>>,
   samples |-> <<[bits |-> 16, loop |-> 0, book |-> 0],
                 [bits |-> 805306400, loop |-> 0, book |-> 0]>>,
   loops |-> <<LoopOf(0)>>,
   meta |-> [ni \in 0..MaxInst, nd \in 0..MaxDrum |-> Meta(ni, nd, 0)],
   \* the sections in the order to_xml writes them, or in the opposite order
   reversed |-> FALSE]

XmlVariants ==
  { XmlBaseVariant,
    \* an envelope without points
    [XmlBaseVariant EXCEPT !.envelopes[2] = <<>>],
    [XmlBaseVariant EXCEPT !.envelopes[1] = <<>>],
    \* references to items that do not exist
    [XmlBaseVariant EXCEPT !.instruments[1].envelope = 2],
    [XmlBaseVariant EXCEPT !.instruments[2].low = <<2, T1>>],
    [XmlBaseVariant EXCEPT !.samples[1].loop = 1],
    [XmlBaseVariant EXCEPT !.drums[1].envelope = 2],
    \* absent references
    [XmlBaseVariant EXCEPT !.instruments[1].envelope = -1],
    [XmlBaseVariant EXCEPT !.drums[1].sound = <<-1, 0>>],
    [XmlBaseVariant EXCEPT !.drums[1].envelope = -1],
    [XmlBaseVariant EXCEPT !.instruments[1].prim = <<-1, T1>>],
    \* storage medium 2, loop with a tail, loop count 1, a byte field of 256
    [XmlBaseVariant EXCEPT !.samples[2].bits = 134217760],
    \* storage medium 1 and 3, codec 1
    [XmlBaseVariant EXCEPT !.samples[2].bits = 67108896],
    [XmlBaseVariant EXCEPT !.samples[2].bits = 201326624],
    [XmlBaseVariant EXCEPT !.samples[2].bits = 268435488],
    [XmlBaseVariant EXCEPT !.loops = <<LoopOf(-1)>>],
    [XmlBaseVariant EXCEPT !.loops = <<LoopOf(1)>>],
    \* a tail next to loop count 0, no tail next to loop count -1, a loop
    \* start next to loop count 0
    [XmlBaseVariant EXCEPT !.loops = <<[LoopOf(0) EXCEPT !.has_tail = TRUE]>>],
    [XmlBaseVariant EXCEPT !.loops = <<[LoopOf(-1) EXCEPT !.has_tail = FALSE]>>],
    [XmlBaseVariant EXCEPT !.loops = <<[LoopOf(0) EXCEPT !.loop_start = 16]>>],
    [XmlBaseVariant EXCEPT !.instruments[1].decay_index = 256],
    \* counts that differ from the lengths of the lists, an effect count
    \* past 16 bits
    [XmlBaseVariant EXCEPT !.meta = [ni \in 0..MaxInst, nd \in 0..MaxDrum |-> Meta(ni + 1, nd, 0)]],
    [XmlBaseVariant EXCEPT !.meta = [ni \in 0..MaxInst, nd \in 0..MaxDrum |-> Meta(ni, nd + 1, 0)]],
    [XmlBaseVariant EXCEPT !.meta = [ni \in 0..MaxInst, nd \in 0..MaxDrum |-> Meta(ni, nd, 1)]],
    [XmlBaseVariant EXCEPT !.meta = [ni \in 0..MaxInst, nd \in 0..MaxDrum |-> Meta(ni, nd, U16)]],
    \* the loops first, the instruments last
    [XmlBaseVariant EXCEPT !.reversed = TRUE],
    \* fewer items
    [XmlBaseVariant EXCEPT !.instruments = <<@[1]>>],
    [XmlBaseVariant EXCEPT !.instruments = <<>>, !.drums = <<>>] }

Reversed(s) == [k \in 1..Len(s) |-> s[Len(s) + 1 - k]]

InOrder(reversed, sections) == IF reversed THEN Reversed(sections) ELSE sections

XmlInput(meta, instrument_list, drum_list, v) ==
  Elem("bank", [NUM_INST |-> meta.num_instruments, NUM_DRUM |-> meta.num_drums,
                NUM_SFX |-> meta.num_effects, ATnum |-> meta.table_id],
    InOrder(v.reversed, <<Elem("abindexentry", NoAttrib, <<Bankmeta_to_dict(meta)>>),
      Elem("abheader", NoAttrib, <<Elem("struct", [name |-> "ABHeader"], <<>>)>>),
      Elem("abbank", NoAttrib,
        <<Elem("struct", [name |-> "ABBank"],
            <<Field("Drum List Pointer", 0), Field("Effect List Pointer", 0),
              Elem("field", [name |-> "Instrument List"], XmlTable(instrument_list))>>)>>),
      Elem("abdrumlist", NoAttrib,
        <<Elem("struct", [name |-> "ABDrumList"],
            <<Elem("field", [name |-> "Drum List"], XmlTable(drum_list))>>)>>),
      Elem("absfxlist", NoAttrib, <<>>),
      Elem("instruments", NoAttrib,
           [k \in 1..Len(v.instruments) |-> XmlInstrument(v.instruments[k])]),
      Elem("drums", NoAttrib, [k \in 1..Len(v.drums) |-> XmlDrum(v.drums[k])]),
      Elem("envelopes", NoAttrib,
           [k \in 1..Len(v.envelopes) |-> XmlEnvelope(v.envelopes[k])]),
      Elem("samples", NoAttrib, [k \in 1..Len(v.samples) |-> XmlSample(v.samples[k])]),
      Elem("aladpcmbooks", NoAttrib, <<XmlBook>>),
      Elem("aladpcmloops", NoAttrib, [k \in 1..Len(v.loops) |-> XmlLoop(v.loops[k])])>>))

Slots(n, S) == [1..n -> S]

\* binary mode of main: a bank file and its metadata
InitBinary ==
  \E ni \in 0..MaxInst, nd \in 0..MaxDrum, ne \in 0..MaxEff :
  \E islots \in Slots(ni, InstPtrs), dslots \in Slots(nd, DrumPtrs),
     effs \in Slots(ne, EffectRecords), v \in Variants :
    /\ pc = "start"
    /\ bank_data = BankInput(islots, dslots, effs, v)
    /\ bankmeta = Meta(ni, nd, ne)
    /\ bank_xml = <<>>

\* XML mode of main: a document; the index of a table slot is -1 (no index
\* attribute), the index of an item, or one past the longest item list
InitXml ==
  \E ni \in 0..MaxInst, nd \in 0..MaxDrum :
  \E instrument_list \in Slots(ni, -1..MaxInst), drum_list \in Slots(nd, -1..MaxDrum),
     v \in XmlVariants :
    /\ pc = "xml_start"
    /\ bank_data = <<>>
    /\ bankmeta = NewBankmeta
    /\ bank_xml = <<XmlInput(v.meta[ni, nd], instrument_list, drum_list, v)>>

\* the --game argument of the conversion
args_game == "oot"

\* "sample_struct.AUDIOTABLE_ID = bankmeta.table_id" and "DETECTED_GAME =
\* game" have run for the input (every document declares table 1)
Init ==
  /\ InitBinary \/ InitXml
  /\ slot = 0
  /\ valid_index = 0
  /\ DETECTED_GAME = args_game
  /\ AUDIOTABLE_ID = 1
  /\ audiobank = NewAudiobank
  /\ registries = EmptyR
  /\ binary_data = <<>>
  /\ first = <<>>
  /\ files = <<>>

\* ------------------------------------------------- Audiobank.from_bytes
\* the instrument table is read once the effect loop is over
EnterInstruments(ab, data) ==
  LET ab2 == [ab EXCEPT !.instrument_offsets =
                 [k \in 1..bankmeta.num_instruments |-> TableWord(data, HeaderSize + 4 * (k - 1))]]
  IN [pc |-> IF bankmeta.num_instruments > 0 THEN "instruments" ELSE "decoded", ab |-> ab2]

\* the walk that leaves the effect table out
EnterEffectsSkipped(ab, data) == EnterInstruments(ab, data)

EnterEffects(ab, data) ==
  IF bankmeta.num_effects > 0 THEN [pc |-> "effects", ab |-> ab] ELSE EnterInstruments(ab, data)

EnterDrums(ab, data) ==
  IF bankmeta.num_drums > 0 THEN [pc |-> "drums", ab |-> ab] ELSE EnterEffects(ab, data)

\* struct.unpack('>2I', data[:0x08]) and the drum table read
FromBytesBegin ==
  /\ pc = "start"
  /\ IF ~HasBytes(bank_data, 0, HeaderSize)
     THEN /\ pc' = "failed"
          /\ UNCHANGED audiobank
     ELSE LET drumlist_offset == WordAt(bank_data, 0)
              ab == [NewAudiobank EXCEPT
                       !.drumlist_offset = drumlist_offset,
                       !.sfxlist_offset = WordAt(bank_data, 4),
                       !.drum_offsets = [k \in 1..bankmeta.num_drums |->
                                           TableWord(bank_data, drumlist_offset + 4 * (k - 1))]]
          IN \E nx \in {EnterDrums(ab, bank_data)} :
               /\ pc' = nx.pc
               /\ audiobank' = nx.ab
  /\ slot' = 0
  /\ valid_index' = 0
  /\ registries' = EmptyR
  /\ UNCHANGED <<bank_data, bankmeta, DETECTED_GAME, AUDIOTABLE_ID, files, bank_xml, binary_data, first>>

\* one pass of "for i, addr in enumerate(self.drum_offsets)"
DecodeDrum ==
  /\ pc = "drums"
  /\ LET addr == audiobank.drum_offsets[slot + 1]
         last == slot + 1 = Len(audiobank.drum_offsets)
     IN \E r \in {IF addr = 0 THEN Built(registries, None)
                  ELSE Drum_from_bytes(valid_index, addr, bank_data, registries,
                                       DETECTED_GAME, AUDIOTABLE_ID)} :
          IF ~r.ok
          THEN /\ pc' = "failed"
               /\ registries' = r.R
               /\ UNCHANGED <<audiobank, slot, valid_index>>
          ELSE \E nx \in {IF last
                          THEN EnterEffects([audiobank EXCEPT !.drums = Append(@, r.obj)],
                                            bank_data)
                          ELSE [pc |-> "drums",
                                ab |-> [audiobank EXCEPT !.drums = Append(@, r.obj)]]} :
                 /\ audiobank' = nx.ab
                 /\ pc' = nx.pc
                 /\ registries' = r.R
                 /\ slot' = IF last THEN 0 ELSE slot + 1
                 /\ valid_index' = IF last THEN 0
                                   ELSE IF addr = 0 THEN valid_index ELSE valid_index + 1
  /\ UNCHANGED <<bank_data, bankmeta, DETECTED_GAME, AUDIOTABLE_ID, files, bank_xml, binary_data, first>>

\* one pass of "for i in range(0, bankmeta.num_effects)"
DecodeEffect ==
  /\ pc = "effects"
  /\ LET offset == audiobank.sfxlist_offset + EffectSize * slot
         \* chunk == b"\x00" * 8: a chunk cut short by the end of the buffer
         \* is not equal
         allzero == /\ HasBytes(bank_data, offset, EffectSize)
                    /\ WordAt(bank_data, offset) = 0
                    /\ WordAt(bank_data, offset + 4) = 0
         last == slot + 1 = bankmeta.num_effects
     IN \E r \in {IF allzero THEN Built(registries, None)
                  ELSE SoundEffect_from_bytes(slot, offset, bank_data, registries,
                                              DETECTED_GAME, AUDIOTABLE_ID)} :
          IF ~r.ok
          THEN /\ pc' = "failed"
               /\ registries' = r.R
               /\ UNCHANGED <<audiobank, slot>>
          ELSE \E nx \in {IF last
                          THEN EnterInstruments([audiobank EXCEPT !.effects = Append(@, r.obj)],
                                                bank_data)
                          ELSE [pc |-> "effects",
                                ab |-> [audiobank EXCEPT !.effects = Append(@, r.obj)]]} :
                 /\ audiobank' = nx.ab
                 /\ pc' = nx.pc
                 /\ registries' = r.R
                 /\ slot' = IF last THEN 0 ELSE slot + 1
  /\ UNCHANGED <<valid_index, bank_data, bankmeta, DETECTED_GAME, AUDIOTABLE_ID, files,
                 bank_xml, binary_data, first>>

\* the pass that hands out the Instrument of an earlier slot with the same
\* offset once more
DecodeInstrumentDeduplicated ==
  /\ pc = "instruments"
  /\ LET addr == audiobank.instrument_offsets[slot + 1]
         last == slot + 1 = Len(audiobank.instrument_offsets)
         seen == {j \in 1..slot : audiobank.instrument_offsets[j] = addr}
     IN \E r \in {IF addr = 0 THEN Built(registries, None)
                  ELSE IF seen # {}
                  THEN Built(registries, audiobank.instruments[CHOOSE j \in seen : TRUE])
                  ELSE Instrument_from_bytes(valid_index, addr, bank_data, registries,
                                             DETECTED_GAME, AUDIOTABLE_ID)} :
          IF ~r.ok
          THEN /\ pc' = "failed"
               /\ registries' = r.R
               /\ UNCHANGED <<audiobank, slot, valid_index>>
          ELSE /\ audiobank' = [audiobank EXCEPT !.instruments = Append(@, r.obj)]
               /\ pc' = IF last THEN "decoded" ELSE "instruments"
               /\ registries' = r.R
               /\ slot' = IF last THEN 0 ELSE slot + 1
               /\ valid_index' = IF last THEN 0
                                 ELSE IF addr = 0 \/ seen # {} THEN valid_index
                                 ELSE valid_index + 1
  /\ UNCHANGED <<bank_data, bankmeta, DETECTED_GAME, AUDIOTABLE_ID, files, bank_xml, binary_data, first>>

\* one pass of "for i, addr in enumerate(self.instrument_offsets)"
DecodeInstrument ==
  /\ pc = "instruments"
  /\ LET addr == audiobank.instrument_offsets[slot + 1]
         last == slot + 1 = Len(audiobank.instrument_offsets)
     IN \E r \in {IF addr = 0 THEN Built(registries, None)
                  ELSE Instrument_from_bytes(valid_index, addr, bank_data, registries,
                                             DETECTED_GAME, AUDIOTABLE_ID)} :
          IF ~r.ok
          THEN /\ pc' = "failed"
               /\ registries' = r.R
               /\ UNCHANGED <<audiobank, slot, valid_index>>
          ELSE /\ audiobank' = [audiobank EXCEPT !.instruments = Append(@, r.obj)]
               /\ pc' = IF last THEN "decoded" ELSE "instruments"
               /\ registries' = r.R
               /\ slot' = IF last THEN 0 ELSE slot + 1
               /\ valid_index' = IF last THEN 0
                                 ELSE IF addr = 0 THEN valid_index ELSE valid_index + 1
  /\ UNCHANGED <<bank_data, bankmeta, DETECTED_GAME, AUDIOTABLE_ID, files, bank_xml, binary_data, first>>

\* main of another conversion in the same process, for the same game and a
\* bank of audiotable 2, reaching its assignments to the module globals
\* of Sample.py while this decode is under way: SAMPLE_NAMES.update() adds
\* the names it already holds
OtherConversion ==
  /\ pc \in {"start", "drums", "effects", "instruments"}
  /\ bank_data # <<>>
  /\ AUDIOTABLE_ID # 2
  /\ AUDIOTABLE_ID' = 2
  /\ DETECTED_GAME' = args_game
  /\ UNCHANGED <<pc, slot, valid_index, bank_data, bankmeta, audiobank, registries,
                 bank_xml, binary_data, first, files>>

\* binary mode of main: create_xml_bank on the decoded bank
ToXml ==
  /\ pc = "decoded"
  /\ first = <<>>
  /\ \E x \in {create_xml_bank(bankmeta, audiobank, registries)} :
       /\ pc' = IF x.ok THEN "exported" ELSE "export_failed"
       /\ bank_xml' = IF x.ok THEN <<x.elem>> ELSE <<>>
       \* "with open(f'BANK_{filename}_{DATE_FILENAME}.xml', 'wb') as f", last
       /\ files' = IF x.ok THEN Append(files, [name |-> "xml", data |-> <<x.elem>>])
                   ELSE files
  /\ first' = <<[audiobank |-> audiobank, registries |-> registries]>>
  /\ UNCHANGED <<slot, valid_index, bank_data, bankmeta, DETECTED_GAME, AUDIOTABLE_ID,
                 audiobank, registries, binary_data>>

\* Audiobank.from_xml on the tree that create_xml_bank returned, or on the
\* document of the XML mode
FromXml ==
  /\ pc \in {"exported", "xml_start"}
  /\ \E meta \in {Bankmeta_from_xml(bank_xml[1])} :
       IF ~meta.ok
       THEN /\ pc' = "import_failed"
            /\ UNCHANGED <<bankmeta, audiobank, registries>>
       ELSE \E x \in {Audiobank_from_xml(bank_xml[1])} :
              /\ pc' = IF x.ok THEN "imported" ELSE "import_failed"
              /\ bankmeta' = meta.val
              /\ audiobank' = x.ab
              /\ registries' = x.R
  /\ UNCHANGED <<slot, valid_index, bank_data, DETECTED_GAME, AUDIOTABLE_ID, files,
                 bank_xml, binary_data, first>>

\* create_binary_bank with the bankmeta file opened before audiobank.to_bytes
\* is called
ToBytesInterleaved ==
  /\ pc = "imported"
  /\ \E bankmeta_bytes \in {Bankmeta_to_bytes(bankmeta)} :
       IF ~bankmeta_bytes.ok
       THEN /\ pc' = "encode_failed"
            /\ UNCHANGED <<binary_data, audiobank, registries, files>>
       ELSE \E x \in {Audiobank_to_bytes(audiobank, registries)} :
              /\ pc' = IF x.ok THEN "encoded" ELSE "encode_failed"
              /\ binary_data' = IF x.ok THEN <<x.data>> ELSE <<>>
              /\ audiobank' = x.ab
              /\ registries' = x.R
              /\ files' = IF x.ok
                          THEN files \o <<[name |-> "bankmeta", data |-> bankmeta_bytes.words],
                                          [name |-> "zbank", data |-> x.data]>>
                          ELSE Append(files, [name |-> "bankmeta",
                                              data |-> bankmeta_bytes.words])
  /\ UNCHANGED <<slot, valid_index, bank_data, bankmeta, DETECTED_GAME, AUDIOTABLE_ID,
                 bank_xml, first>>

\* XML mode of main: create_binary_bank on the imported bank; the two files
\* are opened once bankmeta.to_bytes and audiobank.to_bytes have returned
ToBytes ==
  /\ pc = "imported"
  /\ \E bankmeta_bytes \in {Bankmeta_to_bytes(bankmeta)} :
       IF ~bankmeta_bytes.ok
       THEN /\ pc' = "encode_failed"
            /\ UNCHANGED <<binary_data, audiobank, registries, files>>
       ELSE \E x \in {Audiobank_to_bytes(audiobank, registries)} :
              /\ pc' = IF x.ok THEN "encoded" ELSE "encode_failed"
              /\ binary_data' = IF x.ok THEN <<x.data>> ELSE <<>>
              /\ audiobank' = x.ab
              /\ registries' = x.R
              /\ files' = IF x.ok
                          THEN files \o <<[name |-> "bankmeta", data |-> bankmeta_bytes.words],
                                          [name |-> "zbank", data |-> x.data]>>
                          ELSE files
  /\ UNCHANGED <<slot, valid_index, bank_data, bankmeta, DETECTED_GAME, AUDIOTABLE_ID,
                 bank_xml, first>>

\* to_bytes on a bank that from_bytes returned
Reencode ==
  /\ pc = "decoded"
  /\ first = <<>>
  /\ \E x \in {Audiobank_to_bytes(audiobank, registries)} :
       /\ pc' = IF x.ok THEN "reencoded" ELSE "reencode_failed"
       /\ binary_data' = IF x.ok THEN <<x.data>> ELSE <<>>
       /\ audiobank' = x.ab
       /\ registries' = x.R
  /\ first' = <<[audiobank |-> audiobank, registries |-> registries]>>
  /\ UNCHANGED <<slot, valid_index, bank_data, bankmeta, DETECTED_GAME, AUDIOTABLE_ID, files,
                 bank_xml>>

\* the bytes that to_bytes returned become the input of a second from_bytes,
\* with the same bank metadata
Redecode ==
  /\ pc = "reencoded"
  /\ pc' = "start"
  /\ bank_data' = binary_data[1]
  /\ UNCHANGED <<slot, valid_index, bankmeta, DETECTED_GAME, AUDIOTABLE_ID, files,
                 audiobank, registries, bank_xml, binary_data, first>>

Next ==
  \/ FromBytesBegin
  \/ DecodeDrum
  \/ DecodeEffect
  \/ DecodeInstrument
  \/ ToXml
  \/ FromXml
  \/ ToBytes
  \/ Reencode
  \/ Redecode
  \/ OtherConversion

Spec == Init /\ [][Next]_vars

\* ------------------------------------------------------ claims: the decode
Decoding == pc \in {"drums", "effects", "instruments", "decoded"}

Keys(reg) == [p \in 1..Len(reg) |-> reg[p].key]

RegistryNames == {"envelope_registry", "sample_registry", "loopbook_registry", "codebook_registry"}

KindOf(regname) ==
  CASE regname = "envelope_registry" -> "Envelope"
    [] regname = "sample_registry" -> "Sample"
    [] regname = "loopbook_registry" -> "AdpcmLoop"
    [] regname = "codebook_registry" -> "AdpcmBook"

\* offsets of the from_bytes calls made so far for one leaf type, in call order
CallsOf(kind) ==
  LET cs == SelectSeq(registries.calls, LAMBDA c : c[1] = kind)
  IN [k \in 1..Len(cs) |-> cs[k][2]]

\* the non-zero elements of s in the order of their first occurrence
RECURSIVE FirstSeen(_)
FirstSeen(s) ==
  IF s = <<>> THEN <<>>
  ELSE LET r == FirstSeen(SubSeq(s, 1, Len(s) - 1))
           x == s[Len(s)]
       IN IF x = 0 \/ \E k \in 1..Len(r) : r[k] = x THEN r ELSE Append(r, x)

RECURSIVE Concat(_)
Concat(ss) == IF ss = <<>> THEN <<>> ELSE ss[1] \o Concat(Tail(ss))

\* a reference field and the pointer field it was resolved from agree
RefAgrees(reg, ref, offset) ==
  IF offset = 0 THEN ref = 0 ELSE ref \in 1..Len(reg) /\ reg[ref].key = offset

AggregateRefsAgree ==
  /\ \A k \in 1..Len(audiobank.instruments) :
       LET i == audiobank.instruments[k]
       IN ~IsNone(i) =>
            /\ RefAgrees(registries.envelope_registry, i.envelope, i.envelope_offset)
            /\ RefAgrees(registries.sample_registry, i.low_sample, i.low_sample_offset)
            /\ RefAgrees(registries.sample_registry, i.prim_sample, i.prim_sample_offset)
            /\ RefAgrees(registries.sample_registry, i.high_sample, i.high_sample_offset)
  /\ \A k \in 1..Len(audiobank.drums) :
       LET d == audiobank.drums[k]
       IN ~IsNone(d) =>
            /\ RefAgrees(registries.envelope_registry, d.envelope, d.envelope_offset)
            /\ RefAgrees(registries.sample_registry, d.sample, d.sample_offset)
  /\ \A k \in 1..Len(audiobank.effects) :
       LET e == audiobank.effects[k]
       IN ~IsNone(e) => RefAgrees(registries.sample_registry, e.sample, e.sample_offset)
  /\ \A p \in 1..Len(registries.sample_registry) :
       LET sm == registries.sample_registry[p]
       IN /\ RefAgrees(registries.loopbook_registry, sm.loopbook, sm.loopbook_offset)
          /\ RefAgrees(registries.codebook_registry, sm.codebook, sm.codebook_offset)

\* C3: during one decode, in each leaf registry no offset is registered twice
\* and every registered offset is one that was resolved, however many times it
\* was resolved; every reference of an instrument, drum, effect or sample is
\* the registry entry of exactly the offset its pointer field holds.  So two
\* pointers share an instance and an index iff they are equal, and equal
\* contents at two offsets are two entries.
C3_DedupByOffset ==
  Decoding =>
    /\ \A rn \in RegistryNames :
         LET reg == registries[rn]
         IN /\ \A p, q \in 1..Len(reg) : reg[p].key = reg[q].key => p = q
            /\ \A p, q \in 1..Len(reg) : reg[p].index = reg[q].index => p = q
            /\ Keys(reg) = FirstSeen(CallsOf(KindOf(rn)))
    /\ AggregateRefsAgree

\* two instruments and a drum decoded, two of them sharing one envelope that was
\* resolved more than once, and two envelopes of equal contents registered at
\* different offsets
C3_Witness ==
  /\ pc = "decoded"
  /\ \E a, b \in 1..Len(audiobank.instruments) :
       /\ a # b
       /\ ~IsNone(audiobank.instruments[a]) /\ ~IsNone(audiobank.instruments[b])
       /\ audiobank.instruments[a].envelope # 0
       /\ audiobank.instruments[a].prim_sample = audiobank.instruments[b].high_sample
       /\ \E d \in 1..Len(audiobank.drums) :
            /\ ~IsNone(audiobank.drums[d])
            /\ audiobank.drums[d].envelope = audiobank.instruments[a].envelope
  /\ Len(CallsOf("Envelope")) > Len(registries.envelope_registry)
  /\ \E p, q \in 1..Len(registries.envelope_registry) :
       /\ p # q
       /\ registries.envelope_registry[p].points = registries.envelope_registry[q].points

\* C4 (as the specification states it): no leaf from_bytes call is made with
\* offset 0 and no registry holds key 0.
C4_OffsetZeroNeverResolved ==
  /\ \A k \in 1..Len(registries.calls) : registries.calls[k][2] # 0
  /\ \A rn \in RegistryNames : \A p \in 1..Len(registries[rn]) : registries[rn][p].key # 0

\* C5: in each registry of a decode the entity at insertion position p has
\* index p - 1, so the indices are 0..n-1 without gap or duplicate, and an
\* entity whose offset was first resolved earlier has the smaller index.
C5_IndexMonotonic ==
  Decoding =>
    \A rn \in RegistryNames :
      LET reg == registries[rn]
          first_call(o) == CHOOSE k \in 1..Len(CallsOf(KindOf(rn))) :
                             /\ CallsOf(KindOf(rn))[k] = o
                             /\ \A j \in 1..(k - 1) : CallsOf(KindOf(rn))[j] # o
      IN /\ \A p \in 1..Len(reg) : reg[p].index = p - 1
         /\ {reg[p].index : p \in 1..Len(reg)} = 0..(Len(reg) - 1)
         /\ \A p, q \in 1..Len(reg) :
              first_call(reg[p].key) < first_call(reg[q].key) => reg[p].index < reg[q].index

\* a decode that registered two samples, two envelopes, two loops and two books
C5_Witness ==
  /\ pc = "decoded"
  /\ \A rn \in RegistryNames : Len(registries[rn]) >= 2

\* pointer fields in the order the walks meet them
DrumSamplePtrs == [k \in 1..Len(Present(audiobank.drums)) |-> Present(audiobank.drums)[k].sample_offset]
EffectSamplePtrs == [k \in 1..Len(Present(audiobank.effects)) |-> Present(audiobank.effects)[k].sample_offset]
InstrumentSamplePtrs ==
  Concat([k \in 1..Len(Present(audiobank.instruments)) |->
            LET i == Present(audiobank.instruments)[k]
            IN <<i.low_sample_offset, i.prim_sample_offset, i.high_sample_offset>>])
DrumEnvelopePtrs == [k \in 1..Len(Present(audiobank.drums)) |-> Present(audiobank.drums)[k].envelope_offset]
InstrumentEnvelopePtrs ==
  [k \in 1..Len(Present(audiobank.instruments)) |-> Present(audiobank.instruments)[k].envelope_offset]

EveryTableWalked ==
  pc = "decoded" =>
    /\ Len(audiobank.drums) = bankmeta.num_drums
    /\ Len(audiobank.effects) = bankmeta.num_effects
    /\ Len(audiobank.instruments) = bankmeta.num_instruments

\* C6 (amended): from_bytes walks the drum table first, then the effect table,
\* then the instrument table, each in slot order: the effect walk starts only
\* when every drum slot is done, the instrument walk only when every effect
\* is done, and the samples and envelopes are registered in the order of their
\* first encounter along drums, effects, instruments.
C6_DrumsEffectsInstruments ==
  /\ pc = "drums" => audiobank.effects = <<>> /\ audiobank.instruments = <<>>
  /\ pc = "effects" =>
       Len(audiobank.drums) = bankmeta.num_drums /\ audiobank.instruments = <<>>
  /\ pc = "instruments" =>
       Len(audiobank.drums) = bankmeta.num_drums /\ Len(audiobank.effects) = bankmeta.num_effects
  /\ EveryTableWalked
  /\ Decoding =>
       /\ Keys(registries.sample_registry)
            = FirstSeen(DrumSamplePtrs \o EffectSamplePtrs \o InstrumentSamplePtrs)
       /\ Keys(registries.envelope_registry)
            = FirstSeen(DrumEnvelopePtrs \o InstrumentEnvelopePtrs)

\* C6 (as the specification states it): effects first, then drums, then
\* instruments.
C6_EffectsDrumsInstruments ==
  /\ pc = "drums" => Len(audiobank.effects) = bankmeta.num_effects
  /\ Decoding =>
       Keys(registries.sample_registry)
         = FirstSeen(EffectSamplePtrs \o DrumSamplePtrs \o InstrumentSamplePtrs)

\* a decoded bank whose drum, effect and instrument meet two samples, the
\* effect's sample being registered after the drum's
C6_Witness ==
  /\ pc = "decoded"
  /\ Len(Present(audiobank.drums)) > 0
  /\ Len(Present(audiobank.effects)) > 0
  /\ Len(Present(audiobank.instruments)) > 0
  /\ Present(audiobank.drums)[1].sample = 1
  /\ Present(audiobank.effects)[1].sample = 2

\* ---------------------------------------------------- claims: round trips
OffsetFields ==
  {"key", "offset", "envelope_offset", "low_sample_offset", "prim_sample_offset",
   "high_sample_offset", "sample_offset", "loopbook_offset", "codebook_offset"}

\* a record without the fields in drop; None stays None
Without(rec, drop) ==
  IF IsNone(rec) THEN rec ELSE [f \in DOMAIN rec \ drop |-> rec[f]]

WithoutAll(list, drop) == [k \in 1..Len(list) |-> Without(list[k], drop)]

SameRegistries(R1, R2, drop) ==
  \A regname \in RegistryNames : WithoutAll(R1[regname], drop) = WithoutAll(R2[regname], drop)

\* the second from_bytes, on the bytes of to_bytes, has ended
Redecoded == binary_data # <<>> /\ bank_data = binary_data[1] /\ pc \in {"decoded", "failed"}

\* C1: to_bytes succeeds on every decoded bank, and decoding its output with
\* the same bankmeta succeeds and gives the graph of the first decode: the same
\* instruments, drums and effects slot for slot (None included) and the same
\* registry entries with the same indices and references, offsets aside.
C1_RoundTripIdentity ==
  /\ pc # "reencode_failed"
  /\ Redecoded =>
       /\ pc = "decoded"
       /\ WithoutAll(audiobank.instruments, OffsetFields)
            = WithoutAll(first[1].audiobank.instruments, OffsetFields)
       /\ WithoutAll(audiobank.drums, OffsetFields)
            = WithoutAll(first[1].audiobank.drums, OffsetFields)
       /\ WithoutAll(audiobank.effects, OffsetFields)
            = WithoutAll(first[1].audiobank.effects, OffsetFields)
       /\ SameRegistries(registries, first[1].registries, OffsetFields)

\* the document came from create_xml_bank on a decoded bank
FromExport == bank_data # <<>> /\ bank_xml # <<>>

\* names and the stored bit field are not part of the text form
TextDrop == OffsetFields \cup {"name", "bits"}

\* the index map a decoded table stands for: -1 for an absent slot
SlotMap(list) == [k \in 1..Len(list) |-> IF IsNone(list[k]) THEN -1 ELSE list[k].index]

\* C2: for every decoded bank the export succeeds, the import of the exported
\* tree succeeds, and the imported graph has the registry entries of the
\* decoded one in the same index order, the same instrument and drum records
\* with the same references, and the table maps of the decoded tables.
C2_TextRoundTrip ==
  /\ pc # "export_failed"
  /\ FromExport => pc # "import_failed"
  /\ FromExport /\ pc = "imported" =>
       /\ SameRegistries(registries, first[1].registries, TextDrop)
       /\ WithoutAll(audiobank.instruments, TextDrop)
            = WithoutAll(Present(first[1].audiobank.instruments), TextDrop)
       /\ WithoutAll(audiobank.drums, TextDrop)
            = WithoutAll(Present(first[1].audiobank.drums), TextDrop)
       /\ audiobank.instrument_index_map = SlotMap(first[1].audiobank.instruments)
       /\ audiobank.drum_index_map = SlotMap(first[1].audiobank.drums)

\* ---------------------------------------------------- claims: the encoder
\* to_bytes has returned
Encoded == pc \in {"encoded", "reencoded"}

Buffer == binary_data[1]

DrumlistOffset == align_to_16(HeaderSize + 4 * Len(audiobank.instrument_index_map))

\* the offsets of each category, in allocation order; a table without slots
\* holds no bytes and is no entity
Categories ==
  <<<<0>>,
    IF audiobank.drum_index_map = <<>> THEN <<>> ELSE <<DrumlistOffset>>,
    Offsets(audiobank.instruments),
    Offsets(audiobank.drums),
    Offsets(registries.sample_registry),
    Offsets(registries.envelope_registry),
    Offsets(registries.loopbook_registry),
    Offsets(registries.codebook_registry)>>

\* C7: the offsets to_bytes assigns are multiples of 16, rise in list order
\* inside a category, and every offset of a later category is greater than
\* every offset of an earlier category (tables, instruments, drums, samples,
\* envelopes, loops, books).
C7_AllocationOrder ==
  Encoded =>
    /\ \A c \in 1..Len(Categories) : \A k \in 1..Len(Categories[c]) :
         /\ Categories[c][k] % 16 = 0
         /\ k > 1 => Categories[c][k - 1] <= Categories[c][k]
    /\ \A c, d \in 1..Len(Categories) :
         c < d => \A j \in 1..Len(Categories[c]), k \in 1..Len(Categories[d]) :
                    Categories[c][j] < Categories[d][k]

\* the offset a reference stands for in the buffer: the target's, 0 for None
Target(ref, registry) == IF ref # 0 THEN registry[ref].offset ELSE 0

\* a table slot whose index names an item, or -1
Resolvable(list, index) == index >= -1 /\ index < Len(list)

SlotTarget(list, index) == IF index = -1 THEN 0 ELSE list[index + 1].offset

\* C8: in the buffer to_bytes returned, each pointer word of an instrument,
\* drum and sample record, and each table slot whose index is -1 or names an
\* item, holds the offset this call assigned to its target, and 0 when there
\* is no target.
C8_PatchPass ==
  Encoded =>
    /\ \A k \in 1..Len(audiobank.instruments) :
         LET i == audiobank.instruments[k]
         IN /\ WordAt(Buffer, i.offset + 4) = Target(i.envelope, registries.envelope_registry)
            /\ WordAt(Buffer, i.offset + 8) = Target(i.low_sample, registries.sample_registry)
            /\ WordAt(Buffer, i.offset + 16) = Target(i.prim_sample, registries.sample_registry)
            /\ WordAt(Buffer, i.offset + 24) = Target(i.high_sample, registries.sample_registry)
    /\ \A k \in 1..Len(audiobank.drums) :
         LET d == audiobank.drums[k]
         IN /\ WordAt(Buffer, d.offset + 4) = Target(d.sample, registries.sample_registry)
            /\ WordAt(Buffer, d.offset + 12) = Target(d.envelope, registries.envelope_registry)
    /\ \A k \in 1..Len(registries.sample_registry) :
         LET sm == registries.sample_registry[k]
         IN /\ WordAt(Buffer, sm.offset + 8) = Target(sm.loopbook, registries.loopbook_registry)
            /\ WordAt(Buffer, sm.offset + 12) = Target(sm.codebook, registries.codebook_registry)
    /\ \A k \in 1..Len(audiobank.instrument_index_map) :
         Resolvable(audiobank.instruments, audiobank.instrument_index_map[k])
         => WordAt(Buffer, HeaderSize + 4 * (k - 1))
              = SlotTarget(audiobank.instruments, audiobank.instrument_index_map[k])
    /\ \A k \in 1..Len(audiobank.drum_index_map) :
         Resolvable(audiobank.drums, audiobank.drum_index_map[k])
         => WordAt(Buffer, DrumlistOffset + 4 * (k - 1))
              = SlotTarget(audiobank.drums, audiobank.drum_index_map[k])

\* an encoded bank whose instrument has an envelope, a sample and an absent
\* sample, reached through a table slot, next to a drum
C8_Witness ==
  /\ pc = "encoded"
  /\ \E k \in 1..Len(audiobank.instruments) :
       /\ audiobank.instruments[k].envelope # 0
       /\ audiobank.instruments[k].prim_sample # 0
       /\ audiobank.instruments[k].high_sample = 0
       /\ \E j \in 1..Len(audiobank.instrument_index_map) :
            audiobank.instrument_index_map[j] = k - 1
  /\ audiobank.drums # <<>>
  /\ audiobank.drum_index_map # <<>>
  /\ registries.sample_registry # <<>>

\* C9: in the buffer to_bytes returned, word 0 is the offset of the drum list
\* and, when the bank has effects, word 1 is the offset of an effect list that
\* holds the (sample pointer, tuning) record of each effect.
C9_HeaderPatching ==
  Encoded =>
    /\ WordAt(Buffer, 0) = DrumlistOffset
    /\ bankmeta.num_effects > 0 =>
         LET sfxlist_offset == WordAt(Buffer, 4)
         IN /\ sfxlist_offset >= DrumlistOffset
            /\ HasBytes(Buffer, sfxlist_offset, EffectSize * Len(audiobank.effects))
            /\ \A k \in 1..Len(audiobank.effects) :
                 /\ WordAt(Buffer, sfxlist_offset + EffectSize * (k - 1))
                      = Target(audiobank.effects[k].sample, registries.sample_registry)
                 /\ WordAt(Buffer, sfxlist_offset + EffectSize * (k - 1) + 4)
                      = audiobank.effects[k].sample_tuning

\* the "index" attributes of the document, read as the parsers read them
DocInstrumentList == Indices(parse_abbank(find(bank_xml[1], "abbank")[1]).val.instrument_list)

DocDrumList == Indices(parse_drumlist(find(bank_xml[1], "abdrumlist")[1]).val)

DocCount(tag) == Len(Items(bank_xml[1], tag))

Names(index, count) == index >= 0 /\ index < count

\* some index of the document other than -1 names no item
DanglingReference ==
  \/ \E k \in 1..Len(DocInstrumentList) :
       DocInstrumentList[k] # -1 /\ ~Names(DocInstrumentList[k], DocCount("instruments"))
  \/ \E k \in 1..Len(DocDrumList) :
       DocDrumList[k] # -1 /\ ~Names(DocDrumList[k], DocCount("drums"))
  \/ \E k \in 1..DocCount("instruments") :
       LET data == parse_instrument(Items(bank_xml[1], "instruments")[k]).val
       IN \/ data.envelope # -1 /\ ~Names(data.envelope, DocCount("envelopes"))
          \/ \E j \in 1..Len(data.samples) :
               data.samples[j].sample # -1
               /\ ~Names(data.samples[j].sample, DocCount("samples"))
  \/ \E k \in 1..DocCount("drums") :
       LET data == parse_drum(Items(bank_xml[1], "drums")[k]).val
       IN \/ data.envelope # -1 /\ ~Names(data.envelope, DocCount("envelopes"))
          \/ data.sample.sample # -1 /\ ~Names(data.sample.sample, DocCount("samples"))
  \/ \E k \in 1..DocCount("samples") :
       LET data == parse_sample(Items(bank_xml[1], "samples")[k]).val
       IN \/ ~Names(data.loop, DocCount("aladpcmloops"))
          \/ ~Names(data.book, DocCount("aladpcmbooks"))

\* C10: a document with an index that names no item is never encoded: the
\* import or the encode has raised.
C10_DanglingIsFatal == pc = "encoded" => ~DanglingReference

\* ------------------------------------------------ claims: sparse tables
\* the "element" children of the exported instrument list and drum list
ExportedInstrumentList ==
  findall(StructFields(find(bank_xml[1], "abbank")[1]).fields[3], "element")

ExportedDrumList ==
  IF find(find(bank_xml[1], "abdrumlist")[1], "struct") = <<>> THEN <<>>
  ELSE findall(StructFields(find(bank_xml[1], "abdrumlist")[1]).fields[1], "element")

\* one element for each slot, in slot order, with the slot's offset as value
\* and an "index" attribute exactly for the non-zero slots
SlotForSlot(elements, offsets) ==
  /\ Len(elements) = Len(offsets)
  /\ \A k \in 1..Len(offsets) :
       /\ elements[k].attrib.value = offsets[k]
       /\ HasAttr(elements[k], "index") <=> offsets[k] # 0

MinusOneWhenZero(field, pointer) ==
  pointer = 0 => HasAttr(field, "index") /\ field.attrib.index = -1

\* the "Sample Pointer" field of the k-th sound of an exported instrument
SoundPointer(fields, k) == StructFields(findall(fields[6], "element")[k]).fields[1]

\* C12: the export of every decoded bank succeeds, and in the exported items
\* an instrument's envelope pointer and low, prim and high sample pointers and
\* a drum's envelope pointer carry index -1 when the decoded pointer is 0.
C12_AbsentPointersExportMinusOne ==
  /\ pc # "export_failed"
  /\ pc = "exported" =>
       /\ \A k \in 1..Len(Present(audiobank.instruments)) :
            LET i == Present(audiobank.instruments)[k]
                fields == StructFields(Items(bank_xml[1], "instruments")[k]).fields
            IN /\ MinusOneWhenZero(fields[5], i.envelope_offset)
               /\ MinusOneWhenZero(SoundPointer(fields, 1), i.low_sample_offset)
               /\ MinusOneWhenZero(SoundPointer(fields, 2), i.prim_sample_offset)
               /\ MinusOneWhenZero(SoundPointer(fields, 3), i.high_sample_offset)
       /\ \A k \in 1..Len(Present(audiobank.drums)) :
            LET d == Present(audiobank.drums)[k]
                fields == StructFields(Items(bank_xml[1], "drums")[k]).fields
            IN MinusOneWhenZero(fields[6], d.envelope_offset)

\* ------------------------------------------------------- claims: drums
\* the drum loop stands at a record that is in the buffer and whose sample
\* pointer is 0
AtDrumWithoutSample ==
  /\ Len(audiobank.drums) < Len(audiobank.drum_offsets)
  /\ slot + 1 <= Len(audiobank.drum_offsets)
  /\ audiobank.drum_offsets[slot + 1] # 0
  /\ HasBytes(bank_data, audiobank.drum_offsets[slot + 1], DrumSize)
  /\ WordAt(bank_data, audiobank.drum_offsets[slot + 1] + 4) = 0

NoDrumWithoutSample ==
  \A k \in 1..Len(audiobank.drums) :
    ~IsNone(audiobank.drums[k]) => audiobank.drums[k].sample # 0

\* the drum items of the document name a sample
DocDrumsNameSample ==
  \A k \in 1..DocCount("drums") :
    parse_drum(Items(bank_xml[1], "drums")[k]).val.sample.sample # -1

\* C13: the drum pass on a drum record whose sample pointer is 0 fails without a
\* from_bytes call on any sample; a document with a drum whose sample index
\* is -1 or missing is never imported; no bank ever holds a drum without a
\* sample.
C13_DrumNeedsSample ==
  /\ [](NoDrumWithoutSample)
  /\ [](pc \in {"imported", "encoded", "encode_failed"} => DocDrumsNameSample)
  /\ [][DecodeDrum /\ AtDrumWithoutSample
        => pc' = "failed" /\ registries' = registries]_vars

\* the decode has failed at a drum record whose sample pointer is 0
C13_Witness == pc = "failed" /\ AtDrumWithoutSample

\* ------------------------------------------------------- claims: books
\* C14: every AdpcmBook in a registry, decoded or imported, holds as many
\* predictor arrays as its num_predictors says, of 16 values each (so a book
\* whose count exceeds the arrays left in the buffer is never registered).
C14_BookCountConsistency ==
  \A k \in 1..Len(registries.codebook_registry) :
    LET book == registries.codebook_registry[k]
    IN /\ Len(book.predictor_arrays) = book.num_predictors
       /\ \A a \in 1..Len(book.predictor_arrays) : Len(book.predictor_arrays[a]) = 16

\* ----------------------------------------------------- claims: samples
\* the Sample.from_bytes calls made so far on offsets that hold a record
SampleCalls == {o \in {CallsOf("Sample")[k] : k \in 1..Len(CallsOf("Sample"))} :
                  HasBytes(bank_data, o, SampleSize)}

\* the conditions on the record at offset o, read from the buffer
SampleRecordValid(o) ==
  LET bits == WordAt(bank_data, o)
      loopbook_offset == WordAt(bank_data, o + 8)
      codebook_offset == WordAt(bank_data, o + 12)
  IN /\ loopbook_offset # 0
     /\ codebook_offset # 0
     /\ Shr(bits, 28) % 8 \in {0, 3}
     /\ Shr(bits, 26) % 4 = 0
     /\ Shr(bits, 24) % 2 = 0
     /\ AdpcmLoop_from_bytes(loopbook_offset, bank_data, EmptyR).ok
     /\ AdpcmBook_from_bytes(codebook_offset, bank_data, EmptyR).ok

SampleRegistered(o) ==
  \E k \in 1..Len(registries.sample_registry) : registries.sample_registry[k].key = o

Loops == {registries.loopbook_registry[k] : k \in 1..Len(registries.loopbook_registry)}

HasTail(l) == Len(l.predictor_array) = 16

\* C16: every registered AdpcmLoop, decoded or imported, has loop count 0 or
\* -1 and holds the 16-value tail exactly when its count is -1; when to_bytes
\* returns for it, it returns 16 bytes for count 0 and 48 bytes for count -1.
C16_LoopTailRule ==
  \A l \in Loops :
    /\ l.loop_count \in {0, -1}
    /\ HasTail(l) <=> l.loop_count = -1
    /\ AdpcmLoop_to_bytes(l).ok
       => Bytes(AdpcmLoop_to_bytes(l).words) = IF l.loop_count = 0 THEN 16 ELSE 48

\* C17: every registered AdpcmLoop, decoded or imported, whose loop count is 0
\* has loop start 0.
C17_ZeroCountZeroStart ==
  \A l \in Loops : l.loop_count = 0 => l.loop_start = 0

\* ------------------------------------------------- claims: instruments
\* C18: every decoded Instrument whose low sample pointer is 0 has
\* key_region_low 0, and every one whose high sample pointer is 0 has
\* key_region_high 127, whatever tuning stands next to the pointer.
C18_KeyRegionInvariant ==
  bank_data # <<>> /\ Decoding
  => \A k \in 1..Len(Present(audiobank.instruments)) :
       LET i == Present(audiobank.instruments)[k]
       IN /\ i.low_sample_offset = 0 => i.key_region_low = 0
          /\ i.high_sample_offset = 0 => i.key_region_high = 127

\* --------------------------------------------------- claims: envelopes
\* the (delay, arg) pair stored at byte offset b of the buffer
PairAt(data, b) == <<WordAt(data, b) \div U16, S16(WordAt(data, b) % U16)>>

\* points are the consecutive pairs of data from offset o on, and none before
\* the last has a negative delay
ConsecutiveRun(points, data, o) ==
  \A k \in 1..Len(points) :
    /\ o + 4 * k <= Bytes(data)
    /\ points[k] = PairAt(data, o + 4 * (k - 1))
    /\ k < Len(points) => points[k][1] >= 0

EndsAtNegativeDelay(points) == points # <<>> /\ points[Len(points)][1] < 0

EnvelopeCalls == {CallsOf("Envelope")[k] : k \in 1..Len(CallsOf("Envelope"))}

\* C19: while a buffer is decoded, the points that Envelope.from_bytes reads
\* at an offset are the consecutive pairs from that offset up to and including
\* the first pair with a negative delay (or up to the end of the buffer), and
\* every registered Envelope is such a run ending at a negative delay; in an
\* encoded buffer an envelope of N points occupies its N pairs followed by
\* zeros up to the next multiple of 16 bytes.
C19_EnvelopeTermination ==
  /\ bank_data # <<>> /\ pc \in {"drums", "effects", "instruments", "decoded", "failed"}
     => /\ \A o \in EnvelopeCalls :
             LET points == ReadPoints(bank_data, o, <<>>)
             IN /\ ConsecutiveRun(points, bank_data, o)
                /\ EndsAtNegativeDelay(points) \/ o + 4 * Len(points) + 4 > Bytes(bank_data)
        /\ \A k \in 1..Len(registries.envelope_registry) :
             LET e == registries.envelope_registry[k]
             IN ConsecutiveRun(e.points, bank_data, e.offset) /\ EndsAtNegativeDelay(e.points)
  /\ Encoded
     => \A k \in 1..Len(registries.envelope_registry) :
          LET e == registries.envelope_registry[k]
              N == Len(e.points)
          IN /\ ConsecutiveRun(e.points, Buffer, e.offset)
             /\ \A b \in (e.offset + 4 * N)..(e.offset + align_to_16(4 * N) - 1) :
                  b % 4 = 0 => WordAt(Buffer, b) = 0
             /\ Bytes(Envelope_to_bytes(e).words) = align_to_16(4 * N)

\* a buffer re-encoded after a decode that registered two envelopes
C19_Witness ==
  /\ pc = "reencoded" /\ bank_data # <<>>
  /\ Len(registries.envelope_registry) = 2
  /\ \A k \in 1..2 : EndsAtNegativeDelay(registries.envelope_registry[k].points)

\* -------------------------------------------------- claims: aggregates
\* the pairs of decoded table slots that hold the same non-zero offset
SameOffsetSlots(offsets, list) ==
  {p \in (1..Len(list)) \X (1..Len(list)) :
     p[1] < p[2] /\ offsets[p[1]] # 0 /\ offsets[p[1]] = offsets[p[2]]}

\* one entity for each slot: the entity of slot k carries the number of
\* non-zero slots before it as its index, and two slots with the same offset
\* hold entities that differ in the index and in nothing else, so that they
\* name the same registry entries
OnePerSlot(offsets, list) ==
  /\ \A k \in 1..Len(list) :
       offsets[k] # 0
       => /\ ~IsNone(list[k])
          /\ list[k].offset = offsets[k]
          /\ list[k].index = Cardinality({j \in 1..(k - 1) : offsets[j] # 0})
  /\ \A p \in SameOffsetSlots(offsets, list) :
       /\ list[p[1]].index # list[p[2]].index
       /\ Without(list[p[1]], {"index"}) = Without(list[p[2]], {"index"})

\* no registry holds two entries for one offset
RegistriesShared ==
  \A rn \in RegistryNames :
    \A j, k \in 1..Len(registries[rn]) :
      registries[rn][j].key = registries[rn][k].key => j = k

Failures == {"failed", "export_failed", "import_failed", "encode_failed", "reencode_failed"}

FileNames == [k \in 1..Len(files) |-> files[k].name]

\* the files of one create_xml_bank, or of one create_binary_bank
WrittenWhole(before, after, state) ==
  \/ /\ state = "exported"
     /\ Len(after) = Len(before) + 1
     /\ SubSeq(after, 1, Len(before)) = before
     /\ after[Len(after)].name = "xml"
  \/ /\ state = "encoded"
     /\ Len(after) = Len(before) + 2
     /\ SubSeq(after, 1, Len(before)) = before
     /\ after[Len(after) - 1].name = "bankmeta"
     /\ after[Len(after)].name = "zbank"

\* C21: a step that ends a conversion with an error writes no file, and the
\* files change only in the step in which create_xml_bank or
\* create_binary_bank returns, which writes the whole output at once; a
\* bankmeta file is never there without its bank file.
C21_AtomicFailure ==
  /\ [][/\ pc' \in Failures => files' = files
        /\ files' # files => WrittenWhole(files, files', pc')]_vars
  /\ [](/\ pc \in Failures /\ first = <<>> => files = <<>>
        /\ Cardinality({k \in 1..Len(files) : files[k].name = "bankmeta"})
             = Cardinality({k \in 1..Len(files) : files[k].name = "zbank"}))

\* audiobank.to_bytes has raised after bankmeta.to_bytes returned
C21_Witness ==
  pc = "encode_failed" /\ Bankmeta_to_bytes(bankmeta).ok /\ files = <<>>

\* ------------------------------------------- claims: process-wide state
\* the name that the conversion's own game and bankmeta give a sample
OwnSampleName(table_offset) ==
  LET name_offset == IF args_game = "oot"
                     THEN add_table_oot(bankmeta.table_id, table_offset)
                     ELSE add_table_mm(bankmeta.table_id, table_offset)
      sample_name == get_sample_name(args_game, name_offset)
  IN IF sample_name # "" THEN sample_name ELSE "Sample"

\* C22: while a buffer is decoded, every registered sample carries the name
\* that the bank's own bankmeta and game give its audiotable address, whatever
\* other conversions of the process do in between.
C22_ConversionIndependence ==
  bank_data # <<>> /\ Decoding
  => \A k \in 1..Len(registries.sample_registry) :
       registries.sample_registry[k].name
         = OwnSampleName(registries.sample_registry[k].table_offset)

\* ------------------------------------------------ claims: immutability
\* the entries that registry rn holds keep every field but those in drop
EntriesKept(rn, drop) ==
  /\ Len(registries'[rn]) >= Len(registries[rn])
  /\ \A k \in 1..Len(registries[rn]) :
       Without(registries'[rn][k], drop) = Without(registries[rn][k], drop)

AllEntriesKept == \A rn \in RegistryNames : EntriesKept(rn, {})

\* C23: a step of a decode pass changes no field, the name included, of an
\* Envelope, Sample, AdpcmLoop or AdpcmBook that is already registered.
C23_ImmutableOnceRegistered ==
  [][(pc \in {"drums", "effects", "instruments"}) => AllEntriesKept]_vars

\* ------------------------------------------------ claims: build order
\* item k of a section of the document, parsed
DocItem(tag, k) == Items(bank_xml[1], tag)[k]

\* the bankmeta, the instrument list or the drum list cannot be read
HeaderRaises ==
  \/ ~Bankmeta_from_xml(bank_xml[1]).ok
  \/ /\ find(bank_xml[1], "abbank") # <<>>
     /\ ~parse_abbank(find(bank_xml[1], "abbank")[1]).ok
  \/ /\ find(bank_xml[1], "abdrumlist") # <<>>
     /\ ~parse_drumlist(find(bank_xml[1], "abdrumlist")[1]).ok

\* some item cannot be built even with every item that the document declares
\* in the registries
ItemRaises ==
  \/ \E k \in 1..DocCount("aladpcmloops") :
       With(parse_loopbook(DocItem("aladpcmloops", k)), LAMBDA data :
         ~data.ok \/ ~AdpcmLoop_from_dict(data.val, k - 1).ok)
  \/ \E k \in 1..DocCount("aladpcmbooks") :
       With(parse_codebook(DocItem("aladpcmbooks", k)), LAMBDA data :
         ~data.ok \/ ~AdpcmBook_from_dict(data.val, k - 1).ok)
  \/ \E k \in 1..DocCount("samples") :
       With(parse_sample(DocItem("samples", k)), LAMBDA data :
         ~data.ok \/ ~Sample_from_dict(data.val, k - 1, DocCount("aladpcmloops"),
                                       DocCount("aladpcmbooks")).ok)
  \/ \E k \in 1..DocCount("envelopes") :
       With(parse_envelope(DocItem("envelopes", k)), LAMBDA data :
         ~data.ok \/ ~Envelope_from_dict(data.val, k - 1).ok)
  \/ \E k \in 1..DocCount("instruments") :
       With(parse_instrument(DocItem("instruments", k)), LAMBDA data :
         ~data.ok \/ ~Instrument_from_dict(data.val, k - 1, DocCount("envelopes"),
                                           DocCount("samples")).ok)
  \/ \E k \in 1..DocCount("drums") :
       With(parse_drum(DocItem("drums", k)), LAMBDA data :
         ~data.ok \/ ~Drum_from_dict(data.val, k - 1, DocCount("envelopes"),
                                     DocCount("samples")).ok)

\* reference ref of an imported entity is the entry that item "index" of
\* section tag of the document declares
ResolvedTo(ref, rn, tag, index) ==
  IF index = -1 THEN ref = 0
  ELSE /\ ref = index + 1
       /\ index + 1 \in 1..Len(registries[rn])
       /\ index + 1 \in 1..DocCount(tag)
       /\ registries[rn][ref].index = index

AllResolved ==
  /\ Len(registries.loopbook_registry) = DocCount("aladpcmloops")
  /\ Len(registries.codebook_registry) = DocCount("aladpcmbooks")
  /\ Len(registries.sample_registry) = DocCount("samples")
  /\ Len(registries.envelope_registry) = DocCount("envelopes")
  /\ \A k \in 1..DocCount("samples") :
       With(parse_sample(DocItem("samples", k)).val, LAMBDA data :
         /\ ResolvedTo(registries.sample_registry[k].loopbook, "loopbook_registry",
                       "aladpcmloops", data.loop)
         /\ ResolvedTo(registries.sample_registry[k].codebook, "codebook_registry",
                       "aladpcmbooks", data.book))
  /\ \A k \in 1..DocCount("instruments") :
       With(parse_instrument(DocItem("instruments", k)).val, LAMBDA data :
         /\ ResolvedTo(audiobank.instruments[k].envelope, "envelope_registry",
                       "envelopes", data.envelope)
         /\ ResolvedTo(audiobank.instruments[k].low_sample, "sample_registry",
                       "samples", data.samples[1].sample)
         /\ ResolvedTo(audiobank.instruments[k].prim_sample, "sample_registry",
                       "samples", data.samples[2].sample)
         /\ ResolvedTo(audiobank.instruments[k].high_sample, "sample_registry",
                       "samples", data.samples[3].sample))
  /\ \A k \in 1..DocCount("drums") :
       With(parse_drum(DocItem("drums", k)).val, LAMBDA data :
         /\ ResolvedTo(audiobank.drums[k].envelope, "envelope_registry",
                       "envelopes", data.envelope)
         /\ ResolvedTo(audiobank.drums[k].sample, "sample_registry",
                       "samples", data.sample.sample))

\* C24: from_xml builds the sections in the order loops, books, samples,
\* envelopes, instruments, drums wherever they stand in the document: an
\* import raises only when the head of the document cannot be read or an item
\* cannot be built from the items that the whole document declares, and after
\* an import every reference is the entry that the document's index names.
C24_ImportBuildOrder ==
  /\ pc = "import_failed" => HeaderRaises \/ ItemRaises
  /\ pc = "imported" => AllResolved

\* an imported document whose instruments stand before its samples, and its
\* samples before its loops and books
C24_Witness ==
  /\ pc = "imported"
  /\ SectionPos(bank_xml[1], "instruments") < SectionPos(bank_xml[1], "samples")
  /\ SectionPos(bank_xml[1], "samples") < SectionPos(bank_xml[1], "aladpcmloops")
  /\ SectionPos(bank_xml[1], "samples") < SectionPos(bank_xml[1], "aladpcmbooks")
  /\ \E k \in 1..Len(audiobank.instruments) :
       /\ audiobank.instruments[k].prim_sample # 0
       /\ audiobank.instruments[k].envelope # 0
       /\ registries.sample_registry[audiobank.instruments[k].prim_sample].loopbook # 0

\* ------------------------------------------- claims: count consistency
\* the bankmeta with the counts of the slots that to_bytes writes: one
\* pointer for each entry of the index maps, and no effect list
WithCountsOfTables(meta) ==
  [meta EXCEPT !.num_instruments = Len(audiobank.instrument_index_map),
               !.num_drums = Len(audiobank.drum_index_map),
               !.num_effects = 0]

\* C25: an import returns only when the bankmeta's instrument and drum counts
\* are the numbers of slots of the document's instrument list and drum list,
\* and the bankmeta file written next to an encoded bank carries the numbers
\* of slots of the bank's instrument table, drum list and effect list.
C25_CountConsistency ==
  /\ pc = "imported"
     => /\ bankmeta.num_instruments = Len(audiobank.instrument_index_map)
        /\ bankmeta.num_drums = Len(audiobank.drum_index_map)
  /\ pc = "encoded"
     => /\ files[Len(files) - 1].name = "bankmeta"
        /\ files[Len(files) - 1].data = Bankmeta_to_bytes(WithCountsOfTables(bankmeta)).words

\* ------------------------------------------------ claims: placement
\* the offset and the number of bytes of every entity that to_bytes has
\* written
Extents(list, size(_)) ==
  [k \in 1..Len(list) |-> [offset |-> list[k].offset, size |-> size(list[k])]]

LiveExtents ==
  Extents(audiobank.instruments, LAMBDA x : InstrumentSize)
  \o Extents(audiobank.drums, LAMBDA x : DrumSize)
  \o Extents(registries.sample_registry, LAMBDA x : SampleSize)
  \o Extents(registries.envelope_registry, LAMBDA x : Bytes(Envelope_to_bytes(x).words))
  \o Extents(registries.loopbook_registry, LAMBDA x : Bytes(AdpcmLoop_to_bytes(x).words))
  \o Extents(registries.codebook_registry, LAMBDA x : Bytes(AdpcmBook_to_bytes(x).words))

Apart(a, b) ==
  /\ a.offset # b.offset
  /\ a.offset + a.size <= b.offset \/ b.offset + b.size <= a.offset

\* C26: in an encoded bank any two entities have different offsets and
\* byte ranges that do not overlap, every offset is a multiple of 16 inside
\* the buffer, and the length of the buffer is a multiple of 16.
C26_DistinctPlacement ==
  pc = "encoded"
  => /\ \A i, j \in 1..Len(LiveExtents) : i # j => Apart(LiveExtents[i], LiveExtents[j])
     /\ \A i \in 1..Len(LiveExtents) :
          /\ LiveExtents[i].offset % 16 = 0
          /\ LiveExtents[i].offset >= 0
          /\ LiveExtents[i].offset < Bytes(binary_data[1])
          /\ LiveExtents[i].offset + LiveExtents[i].size <= Bytes(binary_data[1])
     /\ Bytes(binary_data[1]) % 16 = 0

\* ------------------------------------------------ claims: the bit field
\* the six fields with the medium taken as parse_sample takes it
BitfieldOfHexMask(bits) ==
  [unk_0 |-> IF bits < 0 THEN 1 ELSE 0,
   codec |-> Shr(bits, 28) % 8,
   medium |-> BitsAt(bits, 26, ParseSampleMediumMask),
   is_cached |-> Shr(bits, 25) % 2,
   is_relocated |-> Shr(bits, 24) % 2,
   size |-> bits % 16777216]

\* the six fields that Sample.from_bytes takes from the word self.bits
BitfieldOf(bits) ==
  [unk_0 |-> IF bits < 0 THEN 1 ELSE 0,
   codec |-> Shr(bits, 28) % 8,
   medium |-> Shr(bits, 26) % 4,
   is_cached |-> Shr(bits, 25) % 2,
   is_relocated |-> Shr(bits, 24) % 2,
   size |-> bits % 16777216]

BitfieldNames == {"unk_0", "codec", "medium", "is_cached", "is_relocated", "size"}

\* the assertions of Sample.from_bytes on the fields of the bit field
DecodeAccepts(b) == CodecAccepted(b.codec) /\ MediumAccepted(b.medium) /\ b.is_relocated = 0

\* a samples item with its four fields, the values of the first two and the
\* indices of the last two
WholeSampleItem(item) ==
  /\ StructFields(item).ok
  /\ Len(StructFields(item).fields) = 4
  /\ HaveValues(StructFields(item).fields, {0, 1})
  /\ HasAttr(StructFields(item).fields[3], "index")
  /\ HasAttr(StructFields(item).fields[4], "index")
  /\ StructFields(item).fields[3].attrib.index # -1
  /\ StructFields(item).fields[4].attrib.index # -1

DocBitfield(item) == StructFields(item).fields[1].attrib.value

\* C27: parse_sample takes from the Bitfield value of a samples item the six
\* fields that Sample.from_bytes takes from the same word, and it returns for
\* an item exactly when the assertions of Sample.from_bytes accept the fields;
\* a value whose medium field is not 0 is not imported.
C27_BitfieldAgreement ==
  bank_xml # <<>>
  => \A k \in 1..DocCount("samples") :
       WholeSampleItem(DocItem("samples", k))
       => With(parse_sample(DocItem("samples", k)), LAMBDA data :
            With(BitfieldOf(DocBitfield(DocItem("samples", k))), LAMBDA b :
              /\ data.ok <=> DecodeAccepts(b)
              /\ data.ok => \A n \in BitfieldNames : data.val[n] = b[n]))

\* ------------------------------------- the bit field, split and packed
\* every value of the upper byte of the word, as a signed byte, with these
\* values of the lower three bytes
SizeValues == {0, 1, 32, 255, 256, 65535, 65536, 8388607, 8388608, 16777215}

BitfieldValues == {hi * 16777216 + lo : hi \in -128..127, lo \in SizeValues}

\* a Sample as __init__ leaves it, with the fields of the bit field
SampleOfBits(bits) ==
  [key |-> 0, offset |-> 0, index |-> 0, name |-> "Sample", bits |-> bits,
   table_offset |-> 0, loopbook_offset |-> 0, codebook_offset |-> 0,
   loopbook |-> 0, codebook |-> 0] @@ BitfieldOf(bits)

InitBits ==
  /\ pc = "bits_start"
  /\ \E b \in BitfieldValues : bank_data = <<b, 0, 0, 0>>
  /\ bankmeta = NewBankmeta
  /\ bank_xml = <<>>
  /\ slot = 0
  /\ valid_index = 0
  /\ DETECTED_GAME = args_game
  /\ AUDIOTABLE_ID = 1
  /\ audiobank = NewAudiobank
  /\ registries = EmptyR
  /\ binary_data = <<>>
  /\ first = <<>>
  /\ files = <<>>

\* Sample.from_bytes, lines 99-111: the unpack and the six fields
SplitBits ==
  /\ pc = "bits_start"
  /\ pc' = "bits_split"
  /\ registries' = [registries EXCEPT !.sample_registry = <<SampleOfBits(WordAt(bank_data, 0))>>]
  /\ UNCHANGED <<slot, valid_index, bank_data, bankmeta, DETECTED_GAME, AUDIOTABLE_ID,
                 audiobank, bank_xml, binary_data, first, files>>

\* Sample.to_bytes
PackBits ==
  /\ pc = "bits_split"
  /\ \E x \in {Sample_to_bytes(registries.sample_registry[1])} :
       /\ pc' = IF x.ok THEN "bits_packed" ELSE "bits_failed"
       /\ binary_data' = IF x.ok THEN <<x.words>> ELSE <<>>
  /\ UNCHANGED <<slot, valid_index, bank_data, bankmeta, DETECTED_GAME, AUDIOTABLE_ID,
                 audiobank, registries, bank_xml, first, files>>

BitsNext == SplitBits \/ PackBits

BitsSpec == InitBits /\ [][BitsNext]_vars

\* C28: a word split into the six fields of Sample.from_bytes and packed
\* again by Sample.to_bytes is the same word: each field is within its
\* width, the widths add up to 32 bits, the pack does not fail and its
\* bit field is the word that was split.
C28_BitfieldRoundTrip ==
  /\ pc = "bits_split"
     => With(registries.sample_registry[1], LAMBDA sm :
          /\ sm.unk_0 \in 0..1 /\ sm.codec \in 0..7 /\ sm.medium \in 0..3
          /\ sm.is_cached \in 0..1 /\ sm.is_relocated \in 0..1
          /\ sm.size \in 0..16777215)
  /\ pc # "bits_failed"
  /\ pc = "bits_packed"
     => /\ Len(binary_data[1]) = 4
        /\ binary_data[1][1] = WordAt(bank_data, 0)
        /\ binary_data[1][1] \in MinS32..(-(MinS32 + 1))

\* a word with the top bit, medium 2 and the largest size has been packed
C28_Witness ==
  /\ pc = "bits_packed"
  /\ WordAt(bank_data, 0) < 0
  /\ registries.sample_registry[1].medium = 2
  /\ registries.sample_registry[1].codec = 7
  /\ registries.sample_registry[1].size = 16777215

\* ------------------------------------------- claims: export numbering
\* the number of non-absent slots before slot i (1-based) of a table
ValidBefore(offsets, i) == Cardinality({j \in 1..(i - 1) : offsets[j] # 0})

\* slot i of a decoded table: its element of the exported list and its entity
\* carry the number of non-absent slots before it, and the item at that
\* position of the exported section is the export of the entity
SlotNumbered(offsets, list, doc_list, tag, to_dict(_, _), i) ==
  /\ doc_list[i] = ValidBefore(offsets, i)
  /\ list[i].index = ValidBefore(offsets, i)
  /\ ValidBefore(offsets, i) + 1 \in 1..DocCount(tag)
  /\ DocItem(tag, ValidBefore(offsets, i) + 1) = to_dict(list[i], registries).elem

ExportNumbered ==
  /\ \A i \in 1..Len(audiobank.instrument_offsets) :
       audiobank.instrument_offsets[i] # 0
       => SlotNumbered(audiobank.instrument_offsets, audiobank.instruments,
                       DocInstrumentList, "instruments", Instrument_to_dict, i)
  /\ \A i \in 1..Len(audiobank.drum_offsets) :
       audiobank.drum_offsets[i] # 0
       => SlotNumbered(audiobank.drum_offsets, audiobank.drums,
                       DocDrumList, "drums", Drum_to_dict, i)

\* the exported document has a slot that is not absent
SomeSlotExported ==
  \/ \E i \in 1..Len(DocInstrumentList) : DocInstrumentList[i] # -1
  \/ /\ find(bank_xml[1], "abdrumlist")[1].children # <<>>
     /\ \E i \in 1..Len(DocDrumList) : DocDrumList[i] # -1

\* after from_xml the index map of a slot leads to the entity with that index
ImportNumbered ==
  /\ \A i \in 1..Len(audiobank.instrument_index_map) :
       audiobank.instrument_index_map[i] # -1
       => /\ audiobank.instrument_index_map[i] + 1 \in 1..Len(audiobank.instruments)
          /\ audiobank.instruments[audiobank.instrument_index_map[i] + 1].index
               = audiobank.instrument_index_map[i]
  /\ \A i \in 1..Len(audiobank.drum_index_map) :
       audiobank.drum_index_map[i] # -1
       => /\ audiobank.drum_index_map[i] + 1 \in 1..Len(audiobank.drums)
          /\ audiobank.drums[audiobank.drum_index_map[i] + 1].index
               = audiobank.drum_index_map[i]

\* C29: in the tree exported after a decode the k-th non-absent slot of the
\* instrument table and of the drum table carries index k, which is the index
\* of the entity and the position of its item; the import of that tree
\* returns, and then the index map of every non-absent slot leads to the
\* entity with that index.
C29_ExportIndexNumbering ==
  /\ pc = "exported" => ExportNumbered
  /\ bank_data # <<>> /\ pc = "import_failed" => ~SomeSlotExported
  /\ bank_data # <<>> /\ pc = "imported" => ImportNumbered

\* ------------------------------------------- claims: envelope bounds
\* the pairs of the buffer from an offset to its end
PairsLeft(data, o) == IF Bytes(data) - o < 0 THEN 0 ELSE (Bytes(data) - o) \div 4

\* the envelope that from_bytes has registered for an offset
RegisteredAt(o, points) ==
  \E k \in 1..Len(registries.envelope_registry) :
    /\ registries.envelope_registry[k].key = o
    /\ registries.envelope_registry[k].points = points

\* the loop of from_bytes stays in the buffer
ReadInBounds(o) ==
  With(ReadPoints(bank_data, o, <<>>), LAMBDA points :
    /\ Len(points) <= PairsLeft(bank_data, o)
    /\ points # <<>> => o + 4 * Len(points) <= Bytes(bank_data)
    /\ ConsecutiveRun(points, bank_data, o))

\* the buffer ends before a pair with a negative delay
RunsToTheEnd(o) == ~EndsAtNegativeDelay(ReadPoints(bank_data, o, <<>>))

\* C30: while a buffer is decoded, Envelope.from_bytes reads at an offset at
\* most the pairs that the buffer has left from there, none of them past the
\* end, and when the buffer ends before a pair with a negative delay it
\* returns the envelope of the pairs read, which is registered.
C30_EnvelopeInBounds ==
  bank_data # <<>> /\ pc \in {"drums", "effects", "instruments", "decoded", "failed"}
  => \A o \in EnvelopeCalls :
       /\ ReadInBounds(o)
       /\ RunsToTheEnd(o) => RegisteredAt(o, ReadPoints(bank_data, o, <<>>))

====
